---- MODULE Spec2Model ----
(***************************************************************************)
(* Verification model of the code-context retrieval engine of java-gen:    *)
(* context assembly (trim_code_context), relevance scoring and tie         *)
(* breaking, seed selection, call-graph expansion and score propagation.   *)
(* Strings are TLA+ strings; Python's `in`, lower() and len() on them are  *)
(* computed character by character.                                        *)
(***************************************************************************)
EXTENDS Integers, Sequences, FiniteSets, TLC

VARIABLES
    pc,                 \* position of the modelled call: "start", then the phases of the routine
    variant,            \* which of the repository's rewrites of the routine is running
    snippets_by_file,   \* trim_code_context: sequence of [file, snippets] in dict order
    max_chars,          \* trim_code_context: character budget
    context,            \* trim_code_context: the returned string
    file_path,          \* scoring: path of the file that holds the function
    mapping_info,       \* scoring: the EnhancedMappingInfo descriptor
    content_score,      \* scoring: total content score of the function
    path_score,         \* scoring: result of calculate_enhanced_path_score
    match_flags,        \* scoring: its match-flag dict
    tie,                \* scoring: the TieBreakingScore returned
    all_methods,        \* extraction: signature -> MethodInfo
    enhanced_methods,   \* extraction: signature -> combined score (smart mode only)
    called_by,          \* extraction: MethodInfo.called_by of each signature
    method_calls_map,   \* extraction: caller signature -> callee signatures
    max_depth,          \* extraction: depth of the call tracing
    include_callers,    \* extraction: option
    include_callees,    \* extraction: option
    seed_methods,       \* extraction: the seed set
    relevant_methods,   \* extraction: the retained set
    depth,              \* extraction: rounds of the depth loop done so far
    propagated_scores,  \* propagation: signature -> propagated score
    queue,              \* propagation: the breadth-first queue of [sig, depth]
    visited,            \* propagation: signatures enqueued so far
    received,           \* history: the amounts each signature was offered, and by whom
    methods,            \* content scoring: the functions scored, [method_name, snippet, file_path]
    keywords,           \* content scoring: the (primary) keywords
    secondary_keywords, \* content scoring: the secondary keywords
    field_metadata,     \* content scoring: [field_name, backend_xpath]
    scores,             \* content scoring: the score computed for each function
    run,                \* retrieval: which run of the pipeline is under way (0: none)
    first_context,      \* retrieval: the string the first run returned
    tier_candidates,    \* conflict resolution: the list of [sig, score] passed in
    resolved,           \* conflict resolution: the list returned for it
    reordered,          \* conflict resolution: the same candidates in another order
    resolved_reordered, \* conflict resolution: the list returned for reordered
    java_files,         \* walk: the .java files found, in os.walk order
    walked,             \* walk: how many of them the parse loop has handled
    file_to_methods,    \* walk: file path -> signatures registered from it
    parse_results,      \* history: what parse_java_file did for each file handled
    snippet_lines,      \* keyword test: the lines of the snippet, each with its code part
    has_keywords,       \* keyword test: what contains_relevant_keywords returned
    code_lines,         \* method span: the lines of the file, each with its // comment
    start_line,         \* method span: index of the declared line (from 0)
    end_line,           \* method span: what find_method_end returned
    end_line_plain,     \* method span: the same with the braces of // comments removed
    source_lines,       \* parsing: the lines of one .java file
    declarations,       \* parsing: its MethodDeclaration nodes, [class_name, method_name, line]
    all_relevant_methods, \* assembly: the retained functions, as dict items in order
    field_sessions,     \* multi-field manager: field name -> FieldSession
    global_tc_counter,  \* multi-field manager: number of the next test case id
    current_field,      \* multi-field manager: field of the last parse ("" for None)
    summary,            \* multi-field manager: what the last complete_field returned
    batch,              \* bulk generation: the fields of the batch under way
    running,            \* bulk generation: the extraction futures not yet completed
    code_contexts,      \* bulk generation: fid_short -> context
    extraction_errors,  \* bulk generation: the errors collected, in completion order
    batch_failures,     \* bulk generation: the batches recorded as failed
    test_cases,         \* single-list manager: the stored test cases, in order
    counter             \* single-list manager: number of the next generated id

trimVars == <<snippets_by_file, max_chars, context>>
tieVars == <<file_path, mapping_info, content_score, path_score, match_flags, tie>>
indexVars == <<all_methods, enhanced_methods, max_depth, include_callers, include_callees>>
graphVars == <<called_by, method_calls_map, seed_methods, relevant_methods, depth>>
propVars == <<propagated_scores, queue, visited, received>>
contentVars == <<methods, keywords, secondary_keywords, field_metadata, scores>>
retrieveVars == <<run, first_context>>
resolveVars == <<tier_candidates, resolved, reordered, resolved_reordered>>
\* the variables of the routines modelled on their own
walkVars == <<java_files, walked, file_to_methods, parse_results>>
textVars == <<snippet_lines, has_keywords>>
spanVars == <<code_lines, start_line, end_line, end_line_plain>>
parseVars == <<source_lines, declarations>>
assembleVars == <<all_relevant_methods>>
sessionVars == <<field_sessions, global_tc_counter, current_field, summary>>
bulkVars == <<batch, running, code_contexts, extraction_errors, batch_failures>>
storeVars == <<test_cases, counter>>
lateVars == <<sessionVars, bulkVars, storeVars>>
moreVars == <<parseVars, assembleVars, lateVars>>
otherVars == <<resolveVars, walkVars, textVars, spanVars, moreVars>>
vars == <<pc, variant, trimVars, tieVars, indexVars, graphVars, propVars, contentVars,
          retrieveVars, otherVars>>

-----------------------------------------------------------------------------
(* Record shapes, and the values of the variables of a routine that is not running *)

None == "<None>"

TieRecord(cs, ps, flags, final, cat, reason) ==
    [content_score |-> cs, path_score |-> ps,
     service_match |-> flags.service_match,
     operation_match |-> flags.operation_match,
     account_type_match |-> flags.account_type_match,
     final_score |-> final, category |-> cat, tiebreak_reason |-> reason]

Info(service, op, acct, dir) ==
    [service_name |-> service, operation |-> op, account_type |-> acct, direction |-> dir]

NoFlags ==
    [service_match |-> FALSE, operation_match |-> FALSE,
     account_type_match |-> FALSE, direction_match |-> FALSE]
NoTie == TieRecord(0, 0, NoFlags, 0, "", "")

TieIdle ==
    /\ file_path = ""
    /\ mapping_info = Info("", "", None, "")
    /\ content_score = 0
    /\ path_score = 0
    /\ match_flags = NoFlags
    /\ tie = NoTie

NoContext == "<none>"

TrimIdle ==
    /\ snippets_by_file = <<>>
    /\ max_chars = 0
    /\ context = NoContext

EmptyDict == [sig \in {} |-> 0]

GraphIdle ==
    /\ all_methods = EmptyDict
    /\ enhanced_methods = EmptyDict
    /\ called_by = EmptyDict
    /\ method_calls_map = EmptyDict
    /\ max_depth = 0
    /\ include_callers = FALSE
    /\ include_callees = FALSE
    /\ seed_methods = {}
    /\ relevant_methods = {}
    /\ depth = 0
    /\ propagated_scores = EmptyDict
    /\ queue = <<>>
    /\ visited = {}
    /\ received = EmptyDict

NoMetadata == [field_name |-> "", backend_xpath |-> ""]

ContentIdle ==
    /\ methods = <<>>
    /\ keywords = <<>>
    /\ secondary_keywords = <<>>
    /\ field_metadata = NoMetadata
    /\ scores = <<>>

RetrieveIdle ==
    /\ run = 0
    /\ first_context = NoContext

ResolveIdle ==
    /\ tier_candidates = <<>>
    /\ resolved = <<>>
    /\ reordered = <<>>
    /\ resolved_reordered = <<>>

WalkIdle ==
    /\ java_files = <<>>
    /\ walked = 0
    /\ file_to_methods = EmptyDict
    /\ parse_results = <<>>

TextIdle ==
    /\ snippet_lines = <<>>
    /\ has_keywords = FALSE

SpanIdle ==
    /\ code_lines = <<>>
    /\ start_line = 0
    /\ end_line = 0
    /\ end_line_plain = 0

ParseIdle ==
    /\ source_lines = <<>>
    /\ declarations = <<>>

AssembleIdle == all_relevant_methods = <<>>

NoSummary == [field_name |-> "", approved_count |-> 0, rejected_count |-> 0,
              total_generated |-> 0, status |-> "none"]

SessionIdle ==
    /\ field_sessions = EmptyDict
    /\ global_tc_counter = 1
    /\ current_field = ""
    /\ summary = NoSummary

BulkIdle ==
    /\ batch = <<>>
    /\ running = <<>>
    /\ code_contexts = EmptyDict
    /\ extraction_errors = <<>>
    /\ batch_failures = <<>>

StoreIdle ==
    /\ test_cases = <<>>
    /\ counter = 1

LateIdle == SessionIdle /\ BulkIdle /\ StoreIdle

MoreIdle == ParseIdle /\ AssembleIdle /\ LateIdle

OtherIdle == ResolveIdle /\ WalkIdle /\ TextIdle /\ SpanIdle /\ MoreIdle

OthersIdleTie == TrimIdle /\ GraphIdle /\ ContentIdle /\ RetrieveIdle /\ OtherIdle
NotTie == <<trimVars, indexVars, graphVars, propVars, contentVars, retrieveVars, otherVars>>

OthersIdleTrim == TieIdle /\ GraphIdle /\ ContentIdle /\ RetrieveIdle /\ OtherIdle
NotTrim == <<tieVars, indexVars, graphVars, propVars, contentVars, retrieveVars, otherVars>>

OthersIdleGraph == TrimIdle /\ TieIdle /\ ContentIdle /\ RetrieveIdle /\ OtherIdle
NotGraph == <<trimVars, tieVars, contentVars, retrieveVars, otherVars>>

OthersIdleSeed == TrimIdle /\ TieIdle /\ ContentIdle /\ RetrieveIdle /\ OtherIdle

-----------------------------------------------------------------------------
(* Python string primitives *)

RECURSIVE Lower(_)
LowerChar(c) ==
    CASE c = "A" -> "a" [] c = "B" -> "b" [] c = "C" -> "c" [] c = "D" -> "d"
      [] c = "E" -> "e" [] c = "F" -> "f" [] c = "G" -> "g" [] c = "H" -> "h"
      [] c = "I" -> "i" [] c = "J" -> "j" [] c = "K" -> "k" [] c = "L" -> "l"
      [] c = "M" -> "m" [] c = "N" -> "n" [] c = "O" -> "o" [] c = "P" -> "p"
      [] c = "Q" -> "q" [] c = "R" -> "r" [] c = "S" -> "s" [] c = "T" -> "t"
      [] c = "U" -> "u" [] c = "V" -> "v" [] c = "W" -> "w" [] c = "X" -> "x"
      [] c = "Y" -> "y" [] c = "Z" -> "z" [] OTHER -> c

\* str.lower()
Lower(s) ==
    IF Len(s) = 0 THEN ""
    ELSE LowerChar(SubSeq(s, 1, 1)) \o Lower(SubSeq(s, 2, Len(s)))

\* Python's `needle in hay` on strings
Contains(needle, hay) ==
    \E i \in 1..(Len(hay) - Len(needle) + 1) :
        SubSeq(hay, i, i + Len(needle) - 1) = needle

\* any(k in hay for k in needles)
ContainsAny(needles, hay) == \E k \in needles : Contains(k, hay)

RECURSIVE Join(_)
\* "".join(chunks)
Join(chunks) ==
    IF chunks = <<>> THEN "" ELSE Head(chunks) \o Join(Tail(chunks))

RECURSIVE SumLen(_)
SumLen(chunks) ==
    IF chunks = <<>> THEN 0 ELSE Len(Head(chunks)) + SumLen(Tail(chunks))

Max2(a, b) == IF a >= b THEN a ELSE b
Min2(a, b) == IF a <= b THEN a ELSE b

-----------------------------------------------------------------------------
(* trim_code_context: the ContextAssembler *)

NL == "\n"
Dashes50 == "--------------------------------------------------"

\* missing_core_files.py: priority of one annotated snippet
PriorityCore(snippet) ==
    LET snippet_lower == Lower(snippet)
        base == IF ContainsAny({"xpath", "field", "validate", "check"}, snippet_lower)
                THEN 1
                ELSE IF ContainsAny({"public", "private", "protected"}, snippet_lower)
                     THEN 2 ELSE 3
    IN  IF Contains("[SEED]", snippet) \/ Contains("CONTAINS KEYWORDS", snippet)
        THEN 1 ELSE base

\* optimized_java_extractor.py: priority from the annotation tags
PriorityOptimized(snippet) ==
    LET tag == IF Contains("[HIGH]", snippet) THEN 1
               ELSE IF Contains("[MEDIUM]", snippet) THEN 2
               ELSE IF Contains("[LOW]", snippet) THEN 3
               ELSE IF Contains("[RELATED]", snippet) THEN 4
               ELSE 5
    IN  IF Contains("PRIMARY_KEYWORD_IN_METHOD_NAME", snippet) THEN Min2(tag, 1)
        ELSE IF Contains("KEYWORD_MATCH", snippet) THEN Min2(tag, 2)
        ELSE tag

Priority(v, snippet) ==
    IF v = "core" THEN PriorityCore(snippet) ELSE PriorityOptimized(snippet)

\* the serialized entry appended to the buffer
Chunk(v, fpath, snippet) ==
    IF v = "core"
    THEN NL \o "File: " \o fpath \o NL \o "--- Relevant Method ---" \o NL \o snippet \o NL
    ELSE NL \o Dashes50 \o NL \o snippet \o NL \o Dashes50 \o NL

RECURSIVE FlattenFile(_, _, _)
\* the (priority, file_path, snippet) triples of one file, in list order
FlattenFile(v, fpath, snippets) ==
    IF snippets = <<>> THEN <<>>
    ELSE <<[priority |-> Priority(v, Head(snippets)), fpath |-> fpath,
            snippet |-> Head(snippets)]>>
         \o FlattenFile(v, fpath, Tail(snippets))

RECURSIVE RankAll(_, _)
\* the ranking loop over snippets_by_file.items()
RankAll(v, sbf) ==
    IF sbf = <<>> THEN <<>>
    ELSE FlattenFile(v, Head(sbf).file, Head(sbf).snippets) \o RankAll(v, Tail(sbf))

WithPriority(seq, p) == SelectSeq(seq, LAMBDA e : e.priority = p)

\* list.sort(key=priority): stable, ascending; priorities are 1..5
SortByPriority(seq) ==
    WithPriority(seq, 1) \o WithPriority(seq, 2) \o WithPriority(seq, 3)
        \o WithPriority(seq, 4) \o WithPriority(seq, 5)

\* mutant of Fits: the budget is tested before the chunk is counted
FitsBeforeAdd(total_len, chunk, budget) == ~(total_len > budget)

\* the guard of the packing loop: true when the chunk is appended
Fits(total_len, chunk, budget) == ~(total_len + Len(chunk) > budget)

RECURSIVE PackLoopSkip(_, _, _, _, _)
\* mutant of PackLoop: an overflowing entry is skipped (continue) instead of
\* ending the loop (break)
PackLoopSkip(v, ranked, total_len, final_context, budget) ==
    IF ranked = <<>> THEN final_context
    ELSE LET chunk == Chunk(v, Head(ranked).fpath, Head(ranked).snippet)
         IN  IF ~Fits(total_len, chunk, budget)
             THEN PackLoopSkip(v, Tail(ranked), total_len, final_context, budget)
             ELSE PackLoopSkip(v, Tail(ranked), total_len + Len(chunk),
                               Append(final_context, chunk), budget)

RECURSIVE PackLoop(_, _, _, _, _)
\* the packing loop: returns final_context (a sequence of chunks)
PackLoop(v, ranked, total_len, final_context, budget) ==
    IF ranked = <<>> THEN final_context
    ELSE LET chunk == Chunk(v, Head(ranked).fpath, Head(ranked).snippet)
         IN  IF ~Fits(total_len, chunk, budget)
             THEN final_context      \* break
             ELSE PackLoop(v, Tail(ranked), total_len + Len(chunk),
                           Append(final_context, chunk), budget)

\* trim_code_context(snippets_by_file, max_chars), either rewrite
TrimChunks(v, sbf, budget) ==
    IF sbf = <<>> THEN <<>>
    ELSE PackLoop(v, SortByPriority(RankAll(v, sbf)), 0, <<>>, budget)

trim_code_context(v, sbf, budget) == Join(TrimChunks(v, sbf, budget))

-----------------------------------------------------------------------------
(* Path scoring and tie breaking: corrected_smart_extraction.py *)

\* service_variations.get(service_name, [service_name])
ServiceVariations(service_name) ==
    CASE service_name = "addr" -> {"address", "addr"}
      [] service_name = "acct" -> {"account", "acct"}
      [] service_name = "party" -> {"party", "customer"}
      [] service_name = "beneficiary" -> {"beneficiary", "benef"}
      [] OTHER -> {service_name}

\* calculate_enhanced_path_score(file_path, mapping_info): [score, match_flags]
calculate_enhanced_path_score(fp, info) ==
    LET path_lower == Lower(fp)
        direction_match == Contains(info.direction, path_lower)
        exact == info.service_name # "unknown" /\ Contains(info.service_name, path_lower)
        varied == /\ info.service_name # "unknown"
                  /\ ContainsAny(ServiceVariations(info.service_name), path_lower)
        operation_match == Contains(info.operation, path_lower)
        has_type == info.account_type # None /\ info.account_type # ""
        type_in_path == has_type /\ Contains(info.account_type, path_lower)
    IN  [score |-> (IF direction_match THEN 2 ELSE 0)
                   + (IF exact THEN 4 ELSE 0)
                   + (IF varied THEN 3 ELSE 0)
                   + (IF operation_match THEN 3 ELSE 0)
                   + (IF type_in_path THEN 3 ELSE 0),
         match_flags |-> [service_match |-> exact \/ varied,
                          operation_match |-> operation_match,
                          account_type_match |-> IF has_type THEN type_in_path ELSE TRUE,
                          direction_match |-> direction_match]]

\* the critical_path_score of calculate_tiebreaking_score
CriticalPathScore(flags) ==
    (IF flags.direction_match THEN 1 ELSE 0)
    + (IF flags.service_match THEN 2 ELSE 0)
    + (IF flags.operation_match THEN 1 ELSE 0)
    + (IF flags.account_type_match THEN 1 ELSE 0)

\* mutant of calculate_tiebreaking_score: the "high content but poor path" branch
\* is missing, so such a function falls through to the later branches
TiebreakingWithoutContentBranch(cs, ps, flags) ==
    LET critical_path_score == CriticalPathScore(flags)
        base_score == (cs * 2) + ps
    IN  IF cs >= 12 /\ critical_path_score >= 3
        THEN TieRecord(cs, ps, flags, base_score + 10, "HIGH",
                       "High content + critical path match")
        ELSE IF cs >= 12 /\ critical_path_score >= 2
        THEN TieRecord(cs, ps, flags, base_score + 5, "MEDIUM",
                       "High content + partial path match")
        ELSE IF cs >= 8 /\ critical_path_score >= 3
        THEN TieRecord(cs, ps, flags, base_score + 3, "MEDIUM",
                       "Medium content + critical path match")
        ELSE IF cs >= 6 /\ critical_path_score >= 2
        THEN TieRecord(cs, ps, flags, base_score, "LOW",
                       "Low content + decent path match")
        ELSE TieRecord(cs, ps, flags, base_score, "IGNORE",
                       "Insufficient content and path relevance")

\* calculate_tiebreaking_score(content_score, path_score, match_flags, ...)
calculate_tiebreaking_score(cs, ps, flags) ==
    LET critical_path_score == CriticalPathScore(flags)
        base_score == (cs * 2) + ps
    IN  IF cs >= 12 /\ critical_path_score >= 3
        THEN TieRecord(cs, ps, flags, base_score + 10, "HIGH",
                       "High content + critical path match")
        ELSE IF cs >= 12 /\ critical_path_score >= 2
        THEN TieRecord(cs, ps, flags, base_score + 5, "MEDIUM",
                       "High content + partial path match")
        ELSE IF cs >= 8 /\ critical_path_score >= 3
        THEN TieRecord(cs, ps, flags, base_score + 3, "MEDIUM",
                       "Medium content + critical path match")
        ELSE IF cs >= 12
        THEN TieRecord(cs, ps, flags, base_score, "MEDIUM",
                       "High content but path mismatch - content wins")
        ELSE IF cs >= 6 /\ critical_path_score >= 2
        THEN TieRecord(cs, ps, flags, base_score, "LOW",
                       "Low content + decent path match")
        ELSE TieRecord(cs, ps, flags, base_score, "IGNORE",
                       "Insufficient content and path relevance")

-----------------------------------------------------------------------------
(* Conflict resolution and seed selection *)

\* comparison of two key tuples of the same length
LexGreater(a, b) ==
    \E i \in 1..Len(a) : a[i] > b[i] /\ \A j \in 1..(i - 1) : a[j] = b[j]

\* list.sort(key=..., reverse=True), keys[i] being the key of seq[i]: stable, so
\* an element comes after those of greater key and after the earlier elements
\* of equal key
SortDesc(seq, keys) ==
    LET n == Len(seq)
        pos(i) == 1 + Cardinality({j \in 1..n :
                        \/ LexGreater(keys[j], keys[i])
                        \/ (keys[j] = keys[i] /\ j < i)})
    IN  [k \in 1..n |-> seq[CHOOSE i \in 1..n : pos(i) = k]]

B2N(b) == IF b THEN 1 ELSE 0

\* the first sort key of resolve_content_conflicts
CriticalMatches(score) ==
    B2N(score.service_match) + B2N(score.operation_match) + B2N(score.account_type_match)

\* the key (critical matches, path_score, content_score) of the high-content sort
ConflictKey(c) == <<CriticalMatches(c.score), c.score.path_score, c.score.content_score>>

\* the key of the medium-content sort: x[1].final_score
FinalScoreKey(c) == <<c.score.final_score>>

FirstN(seq, n) == SubSeq(seq, 1, Min2(n, Len(seq)))

\* resolve_content_conflicts(candidates); candidates are [sig, score] in list order
resolve_content_conflicts(candidates) ==
    IF Len(candidates) <= 1 THEN candidates
    ELSE LET high_content == SelectSeq(candidates, LAMBDA c : c.score.content_score >= 12)
             medium_content == SelectSeq(candidates,
                 LAMBDA c : 8 <= c.score.content_score /\ c.score.content_score < 12)
             sorted_high == SortDesc(high_content, [i \in 1..Len(high_content) |-> ConflictKey(high_content[i])])
             resolved_high ==
                 IF high_content = <<>> THEN <<>>
                 ELSE SelectSeq(sorted_high,
                     LAMBDA c : c.score.path_score >= sorted_high[1].score.path_score - 2)
             sorted_medium == SortDesc(medium_content,
                                       [i \in 1..Len(medium_content) |-> FinalScoreKey(medium_content[i])])
             resolved_medium ==
                 IF medium_content # <<>> /\ Len(resolved_high) < 5
                 THEN SelectSeq(FirstN(sorted_medium, 3),
                     LAMBDA c : c.score.service_match /\ c.score.operation_match)
                 ELSE <<>>
         IN  resolved_high \o resolved_medium

SigsOf(seq) == {seq[i].sig : i \in 1..Len(seq)}

\* whether reading score.total_score succeeds: a TieBreakingScore, which is what
\* calculate_tiebreaking_score stores in enhanced_methods, has no such attribute
HasTotalScore(score) == "total_score" \in DOMAIN score

\* the sort key of the backfill: x[1].total_score
TotalScoreKey(c) == <<c.score.total_score>>

\* Phase 3 of complete_java_extractor_function.py in smart mode; scored is
\* enhanced_methods.items() in dict order.  The result is the seed set, or the
\* seed set built so far when the sort key raises AttributeError.
SmartSeeds(scored) ==
    LET high_relevance == SelectSeq(scored, LAMBDA c : c.score.category = "HIGH")
        medium_relevance == SelectSeq(scored, LAMBDA c : c.score.category = "MEDIUM")
        from_high == IF Len(high_relevance) > 10
                     THEN SigsOf(resolve_content_conflicts(high_relevance))
                     ELSE SigsOf(high_relevance)
    IN  IF Cardinality(from_high) < 5 /\ medium_relevance # <<>>
        THEN IF \E i \in 1..Len(medium_relevance) : ~HasTotalScore(medium_relevance[i].score)
             THEN [raised |-> TRUE, seeds |-> from_high]
             ELSE [raised |-> FALSE,
                   seeds |-> from_high \cup
                       SigsOf(FirstN(SortDesc(medium_relevance,
                                [i \in 1..Len(medium_relevance) |->
                                    TotalScoreKey(medium_relevance[i])]), 5))]
        ELSE [raised |-> FALSE, seeds |-> from_high]

-----------------------------------------------------------------------------
(* The function index and its call graph *)

\* defaultdict(list)[key]
Get2(dict, key) == IF key \in DOMAIN dict THEN dict[key] ELSE <<>>

\* MethodInfo.get_full_signature()
FullSignature(m) == m.class_name \o "." \o m.method_name \o "(" \o m.param_types \o ")"

MethodInfo(cls, name, calls, kw, rel) ==
    [class_name |-> cls, method_name |-> name, param_types |-> "",
     calls_made |-> calls, contains_keywords |-> kw, relevance_total |-> rel,
     n_mapping_annotations |-> 0, n_field_mappings |-> 0]

\* mutant of CalleesOf: a called name that several methods share is taken to be
\* ambiguous and linked to none of them
CalleesOfUnambiguous(index, sig) ==
    {other \in DOMAIN index :
        /\ index[other].method_name \in index[sig].calls_made
        /\ \A o2 \in DOMAIN index :
              index[o2].method_name = index[other].method_name => o2 = other}

\* the key minimal-score-propagation.py uses for a caller in its call maps:
\* f"{method_info.class_name}.{method_info.method_name}", without the parameter list
ShortName(m) == m.class_name \o "." \o m.method_name

\* dict.get(key, set())
GetSet(dict, key) == IF key \in DOMAIN dict THEN dict[key] ELSE {}

\* Phase 2: caller signature -> signatures of every method whose bare name it calls
CalleesOf(index, sig) ==
    {other \in DOMAIN index : index[other].method_name \in index[sig].calls_made}

CallersOf(index, sig) ==
    {other \in DOMAIN index : index[sig].method_name \in index[other].calls_made}

\* the signatures the relevance filter of smart mode lets through
Admitted(v, scored, sig) ==
    IF v = "smart" /\ DOMAIN scored # {} /\ sig \in DOMAIN scored
    THEN scored[sig].category # "IGNORE"
    ELSE TRUE

\* new_methods of one round of the depth loop
NewMethods(v, index, scored, callers, callees, relevant, inc_callers, inc_callees) ==
    UNION {
        (IF inc_callers
         THEN {c \in callers[sig] : c \notin relevant /\ Admitted(v, scored, c)}
         ELSE {})
        \cup
        (IF inc_callees
         THEN {c \in GetSet(callees, sig) : c \notin relevant /\ Admitted(v, scored, c)}
         ELSE {})
        : sig \in relevant \cap DOMAIN index}

\* Phase 3: the seed set of each rewrite
KeywordSeeds(index) == {sig \in DOMAIN index : index[sig].contains_keywords}

\* _calculate_method_score(method): the intrinsic score
CalculateMethodScore(m) ==
    (IF m.contains_keywords THEN 10 ELSE 0) + m.relevance_total
        + m.n_mapping_annotations * 8 + m.n_field_mappings * 12

\* _find_seed_methods: every method whose intrinsic score reaches the threshold
FindSeedMethods(index) == {sig \in DOMAIN index : CalculateMethodScore(index[sig]) >= 6}

\* dict iteration order of the index: the order in which the methods were parsed
ParseOrder == <<"A.f()", "B.g()", "C.h()", "C.g()">>

\* the signatures of a registry that holds only scored candidates
CandidateSigs(n) == [i \in 1..n |-> "M" \o ToString(i) \o "()"]

\* enhanced_methods.items(): the scored methods in insertion order
ItemsOf(scored) ==
    LET order == ParseOrder \o CandidateSigs(Cardinality(DOMAIN scored))
        present == SelectSeq(order, LAMBDA sig : sig \in DOMAIN scored)
    IN  [i \in 1..Len(present) |-> [sig |-> present[i], score |-> scored[present[i]]]]

-----------------------------------------------------------------------------
(* Score propagation: minimal-score-propagation.py *)

FactorNum == 3              \* propagation_factor = 0.75 = FactorNum / FactorDen
FactorDen == 4
MinPropagatedScore == 8     \* min_propagated_score

RECURSIVE Pow(_, _)
Pow(b, e) == IF e = 0 THEN 1 ELSE b * Pow(b, e - 1)

\* int(current_score * (propagation_factor ** (depth + 1))); scores are >= 0
PropagatedAmount(current_score, d) ==
    (current_score * Pow(FactorNum, d + 1)) \div Pow(FactorDen, d + 1)

\* dict.get(key, 0)
Get(dict, key) == IF key \in DOMAIN dict THEN dict[key] ELSE 0

\* mutant of NewScore: the amounts of several paths add up
NewScoreSum(existing_score, propagated_amount) == existing_score + propagated_amount

\* new_score = max(existing_score, propagated_amount)
NewScore(existing_score, propagated_amount) == Max2(existing_score, propagated_amount)

\* mutant of AtMaxDepth: an entry at max_depth still propagates
AtMaxDepthOffByOne(d, md) == d > md

\* if depth >= max_depth: continue
AtMaxDepth(d, md) == d >= md

\* every order in which a set can be iterated
Orders(S) == {o \in [1..Cardinality(S) -> S] : \A i, j \in 1..Cardinality(S) : i # j => o[i] # o[j]}

RECURSIVE EnqueueOrderAll(_, _, _, _)
\* mutant of EnqueueOrder: every callee whose score was looked at is enqueued,
\* visited before or not
EnqueueOrderAll(index, name_order, newly, d) ==
    IF name_order = <<>> THEN <<>>
    ELSE LET sigs == SelectSeq(ParseOrder,
                 LAMBDA sig : sig \in DOMAIN index /\ index[sig].method_name = Head(name_order))
         IN  [i \in 1..Len(sigs) |-> [sig |-> sigs[i], depth |-> d]]
             \o EnqueueOrderAll(index, Tail(name_order), newly, d)

RECURSIVE EnqueueOrder(_, _, _, _)
\* the callees enqueued by one queue entry: for each called name in the order the
\* set calls_made is iterated, the new callees of that name in dict order
EnqueueOrder(index, name_order, newly, d) ==
    IF name_order = <<>> THEN <<>>
    ELSE LET sigs == SelectSeq(ParseOrder,
                 LAMBDA sig : sig \in newly /\ index[sig].method_name = Head(name_order))
         IN  [i \in 1..Len(sigs) |-> [sig |-> sigs[i], depth |-> d]]
             \o EnqueueOrder(index, Tail(name_order), newly, d)

-----------------------------------------------------------------------------
(* Inputs of the scorer *)

MaxContentScore == 20   \* content scores tried: 0..MaxContentScore
MaxPathScore == 12      \* path scores tried when the flags are given directly

PartyPath == "/request/party/add/PartyValidator.java"
BeneficiaryPath == "/request/beneficiary/add/BeneficiaryValidator.java"
CommonPath == "/util/CommonValidator.java"

PathPool ==
    {PartyPath, BeneficiaryPath, CommonPath,
     "/response/account/inq/sda/AcctMapper.java",
     "/request/customer/mod/CustomerProcessor.java",
     "/request/addr/add/AddressMapper.java"}

PartyAddInfo == Info("party", "add", None, "request")

InfoPool ==
    {PartyAddInfo,
     Info("acct", "inq", "sda", "response"),
     Info("acct", "add", "cda", "request"),
     Info("addr", "add", None, "request"),
     Info("beneficiary", "del", None, "request"),
     Info("unknown", "unknown", None, "request")}

FlagDicts ==
    [service_match : BOOLEAN, operation_match : BOOLEAN,
     account_type_match : BOOLEAN, direction_match : BOOLEAN]

\* Either a file path and a descriptor still to be scored (variant "path"), or the
\* arguments of calculate_tiebreaking_score given directly (variant "flags").
InitTie ==
    /\ OthersIdleTie
    /\ variant \in {"path", "flags"}
    /\ content_score \in 0..MaxContentScore
    /\ tie = NoTie
    /\ \/ /\ variant = "path"
          /\ pc = "start"
          /\ file_path \in PathPool
          /\ mapping_info \in InfoPool
          /\ path_score = 0
          /\ match_flags = NoFlags
       \/ /\ variant = "flags"
          /\ pc = "scored"
          /\ file_path = ""
          /\ mapping_info = Info("", "", None, "")
          /\ path_score \in 0..MaxPathScore
          /\ match_flags \in FlagDicts

\* path_score, match_flags = calculate_enhanced_path_score(file_path, mapping_info)
ScorePath ==
    /\ pc = "start"
    /\ variant = "path"
    /\ LET r == calculate_enhanced_path_score(file_path, mapping_info)
       IN  /\ path_score' = r.score
           /\ match_flags' = r.match_flags
    /\ pc' = "scored"
    /\ UNCHANGED <<variant, file_path, mapping_info, content_score, tie>>
    /\ UNCHANGED NotTie

\* combined_score = calculate_tiebreaking_score(content, path_score, match_flags, ...)
TieBreak ==
    /\ pc = "scored"
    /\ variant \in {"path", "flags"}
    /\ tie' = calculate_tiebreaking_score(content_score, path_score, match_flags)
    /\ pc' = "tied"
    /\ UNCHANGED <<variant, file_path, mapping_info, content_score, path_score, match_flags>>
    /\ UNCHANGED NotTie

NextTie == ScorePath \/ TieBreak

SpecTie == InitTie /\ [][NextTie]_vars

-----------------------------------------------------------------------------
(* Claims about path scoring and tie breaking *)

Tied == pc = "tied" /\ variant \in {"path", "flags"}

\* C6: with descriptor service=party, operation=add, direction=request, no sub-type
\* and the same high content score, the validatePostalCode of the party file is
\* HIGH, that of the beneficiary file MEDIUM and that of the no-service file MEDIUM.
C6_TieBreakScenario ==
    (Tied /\ variant = "path" /\ mapping_info = PartyAddInfo /\ content_score = 15)
        => /\ file_path = PartyPath => tie.category = "HIGH"
           /\ file_path = BeneficiaryPath => tie.category = "MEDIUM"
           /\ file_path = CommonPath => tie.category = "MEDIUM"

NoStructuralMatch ==
    /\ ~match_flags.direction_match
    /\ ~match_flags.service_match
    /\ ~match_flags.operation_match

\* C7: a function with content score >= 12 is categorized MEDIUM or HIGH, never
\* LOW or IGNORE; and a function whose path matches none of direction, service
\* and operation is never HIGH, whatever its content score.
C7_ContentNeverDiscarded ==
    Tied => /\ content_score >= 12 => tie.category \in {"MEDIUM", "HIGH"}
            /\ NoStructuralMatch => tie.category # "HIGH"

\* C7 witness: a scored file path that matches nothing, with high content: MEDIUM.
C7_Witness ==
    /\ Tied
    /\ variant = "path"
    /\ content_score >= 12
    /\ NoStructuralMatch
    /\ tie.category = "MEDIUM"
    /\ tie.final_score = 2 * content_score + path_score

\* the ranges the source documents for the path score and for its service part
DocumentedPathMax == 12
DocumentedServiceMax == 4

\* what step 2 of calculate_enhanced_path_score (service name matching) adds
ServiceNamePoints(fp, info) ==
    LET path_lower == Lower(fp)
    IN  IF info.service_name = "unknown" THEN 0
        ELSE (IF Contains(info.service_name, path_lower) THEN 4 ELSE 0)
             + (IF ContainsAny(ServiceVariations(info.service_name), path_lower)
                THEN 3 ELSE 0)

\* C25: calculate_enhanced_path_score stays within its documented ranges: for
\* every file path and descriptor, service-name matching adds at most 4 points
\* and the total path score lies in 0..12.
C25_PathScoreInRange ==
    (variant = "path" /\ pc \in {"scored", "tied"}) =>
        /\ ServiceNamePoints(file_path, mapping_info) <= DocumentedServiceMax
        /\ path_score \in 0..DocumentedPathMax

\* the descriptor used when the label is missing or cannot be parsed:
\* EnhancedMappingInfo("unknown", "unknown", None, "request", "")
UnknownInfo == Info("unknown", "unknown", None, "request")

\* C16: under the descriptor of an absent or unparseable label, the path score
\* and the match flags are the same whatever the file path.
C16_NeutralDefault ==
    (variant = "path" /\ pc \in {"scored", "tied"} /\ mapping_info = UnknownInfo) =>
        \A fp \in PathPool :
            /\ calculate_enhanced_path_score(fp, mapping_info).score = path_score
            /\ calculate_enhanced_path_score(fp, mapping_info).match_flags = match_flags

-----------------------------------------------------------------------------
(* Extraction: index, call graph, seeds and call tracing *)

MaxDepth == 2           \* max_depth tried: 0..MaxDepth
MaxCalls == 1           \* most distinct names one method calls

\* the sets of names a method of a tree can call, the names being those the
\* tree defines (a call of any other name matches no method)
CallSets(names) == {c \in SUBSET names : Cardinality(c) <= MaxCalls}

\* the methods of the source tree, in parse order: all names distinct, or two
\* classes with a method of the same name, or no method at all
Shapes ==
    {<<>>,
     <<[cls |-> "A", name |-> "f"], [cls |-> "B", name |-> "g"], [cls |-> "C", name |-> "h"]>>,
     <<[cls |-> "A", name |-> "f"], [cls |-> "B", name |-> "g"], [cls |-> "C", name |-> "g"]>>}

ShapeNames(shape) == {shape[i].name : i \in 1..Len(shape)}

ShapeSig(m) == FullSignature(MethodInfo(m.cls, m.name, {}, FALSE, 0))

\* the index of a shape, each method with the calls and attributes chosen for it
IndexOf(shape, ch) ==
    [sig \in {ShapeSig(shape[i]) : i \in 1..Len(shape)} |->
        LET i == CHOOSE i \in 1..Len(shape) : ShapeSig(shape[i]) = sig
        IN  MethodInfo(shape[i].cls, shape[i].name, ch[i].calls, ch[i].kw, ch[i].rel)]

\* per method: the names it calls, contains_keywords, relevance_score.total_score
MethodChoices(v, names) ==
    IF v \in {"basic", "unpropagated"} THEN [calls : CallSets(names), kw : BOOLEAN, rel : {0}]
    ELSE IF v = "smart" THEN [calls : CallSets(names), kw : {FALSE}, rel : {0}]
    ELSE {[calls |-> c, kw |-> a[1], rel |-> a[2]] :
            c \in CallSets(names), a \in {<<FALSE, 0>>, <<TRUE, 0>>, <<TRUE, 20>>}}

\* the choices for the methods of a tree, in parse order
TreeChoices(v, shape) == [1..Len(shape) -> MethodChoices(v, ShapeNames(shape))]

AllFlags ==
    [service_match |-> TRUE, operation_match |-> TRUE,
     account_type_match |-> TRUE, direction_match |-> TRUE]
TypeOnly ==
    [service_match |-> FALSE, operation_match |-> FALSE,
     account_type_match |-> TRUE, direction_match |-> FALSE]
NoService ==
    [service_match |-> FALSE, operation_match |-> TRUE,
     account_type_match |-> TRUE, direction_match |-> TRUE]

\* one scored method of each category, as calculate_tiebreaking_score returns it
ScoredPool ==
    {calculate_tiebreaking_score(15, 12, AllFlags),
     calculate_tiebreaking_score(15, 0, TypeOnly),
     calculate_tiebreaking_score(6, 5, NoService),
     calculate_tiebreaking_score(0, 0, TypeOnly)}

\* the scores of a traced registry: with fewer than five methods, seed selection
\* gets past a MEDIUM method in no case (see SmartSeeds), so registries hold
\* none, or nothing else
ScoredRegistries(sigs) ==
    [sigs -> {r \in ScoredPool : r.category # "MEDIUM"}]
        \cup [sigs -> {r \in ScoredPool : r.category = "MEDIUM"}]

\* the options of one extraction, before any file is parsed
InitGraph ==
    /\ OthersIdleGraph
    /\ pc = "unparsed"
    /\ variant \in {"basic", "smart", "propagate"}
    /\ all_methods = EmptyDict
    /\ enhanced_methods = EmptyDict
    /\ max_depth \in 0..MaxDepth
    /\ include_callers \in IF variant = "basic" THEN BOOLEAN ELSE {TRUE}
    /\ include_callees \in IF variant = "basic" THEN BOOLEAN ELSE {TRUE}
    /\ called_by = EmptyDict
    /\ method_calls_map = EmptyDict
    /\ seed_methods = {}
    /\ relevant_methods = {}
    /\ depth = 0
    /\ propagated_scores = EmptyDict
    /\ queue = <<>>
    /\ visited = {}
    /\ received = EmptyDict

\* Phase 1: parse every file of the tree and build the method registry (and, in
\* smart mode, score each method)
ParseFiles ==
    /\ pc = "unparsed"
    /\ variant \in {"basic", "smart", "propagate", "unpropagated"}
    /\ \E shape \in Shapes :
          \E ch \in TreeChoices(variant, shape) :
             LET index == IndexOf(shape, ch)
             IN  /\ all_methods' = index
                 /\ enhanced_methods' \in
                       IF variant = "smart" THEN ScoredRegistries(DOMAIN index)
                       ELSE {EmptyDict}
                 /\ called_by' = [sig \in DOMAIN index |-> {}]
                 /\ method_calls_map' = [sig \in DOMAIN index |-> {}]
                 /\ received' = [sig \in DOMAIN index |-> {}]
    /\ pc' = "start"
    /\ UNCHANGED <<variant, max_depth, include_callers, include_callees, seed_methods,
                   relevant_methods, depth, propagated_scores, queue, visited>>
    /\ UNCHANGED NotGraph

\* the callee map of minimal-score-propagation.py, a defaultdict(set) keyed by
\* the caller's class and method name
ShortKeyedCallees(index) ==
    [key \in {ShortName(index[sig]) : sig \in {x \in DOMAIN index : CalleesOf(index, x) # {}}} |->
        UNION {CalleesOf(index, sig) : sig \in {x \in DOMAIN index : ShortName(index[x]) = key}}]

\* called_by in minimal-score-propagation.py: the callers' class and method names
ShortNamedCallers(index) ==
    [sig \in DOMAIN index |-> {ShortName(index[c]) : c \in CallersOf(index, sig)}]

\* Phase 2: build the call relationships
BuildCallGraph ==
    /\ pc = "start"
    /\ variant \in {"basic", "smart", "propagate", "unpropagated"}
    /\ IF variant \in {"propagate", "unpropagated"}
       THEN /\ method_calls_map' = ShortKeyedCallees(all_methods)
            /\ called_by' = ShortNamedCallers(all_methods)
       ELSE /\ method_calls_map' = [sig \in DOMAIN all_methods |-> CalleesOf(all_methods, sig)]
            /\ called_by' = [sig \in DOMAIN all_methods |-> CallersOf(all_methods, sig)]
    /\ pc' = "linked"
    /\ UNCHANGED <<variant, indexVars, seed_methods, relevant_methods, depth, propVars>>
    /\ UNCHANGED NotGraph

\* the seed set the running rewrite selects, and whether selecting it raised
SeedsFor(v, index, scored) ==
    IF v \in {"propagate", "unpropagated"}
    THEN [raised |-> FALSE, seeds |-> FindSeedMethods(index)]
    ELSE IF v = "smart" /\ DOMAIN scored # {} THEN SmartSeeds(ItemsOf(scored))
    ELSE [raised |-> FALSE, seeds |-> KeywordSeeds(index)]

\* Phase 3: find the seed methods; relevant_methods = set(seed_methods).  An
\* exception raised by the selection leaves the function before that assignment.
FindSeeds ==
    /\ pc = "linked"
    /\ LET r == SeedsFor(variant, all_methods, enhanced_methods)
       IN  /\ seed_methods' = r.seeds
           /\ relevant_methods' = IF r.raised THEN relevant_methods ELSE r.seeds
           /\ pc' = IF r.raised THEN "raised" ELSE "seeded"
    /\ UNCHANGED <<variant, indexVars, called_by, method_calls_map, depth, propVars>>
    /\ UNCHANGED NotGraph

Tracing ==
    /\ variant \in {"basic", "smart", "unpropagated"}
    /\ include_callers \/ include_callees

\* Phase 4: one round of the depth loop
ExpandRound ==
    /\ pc \in {"seeded", "tracing"}
    /\ Tracing
    /\ depth < max_depth
    /\ LET new_methods == NewMethods(variant, all_methods, enhanced_methods, called_by,
                                     method_calls_map, relevant_methods,
                                     include_callers, include_callees)
       IN  /\ relevant_methods' = relevant_methods \cup new_methods
           /\ depth' = depth + 1
           /\ pc' = IF new_methods = {} \/ depth + 1 = max_depth
                    THEN "traced" ELSE "tracing"
    /\ UNCHANGED <<variant, indexVars, called_by, method_calls_map, seed_methods, propVars>>
    /\ UNCHANGED NotGraph

\* Phase 4 when there is nothing to trace: both options off, or max_depth = 0
NoTrace ==
    /\ pc = "seeded"
    /\ variant \in {"basic", "smart", "unpropagated"}
    /\ ~(include_callers \/ include_callees) \/ max_depth = 0
    /\ pc' = "traced"
    /\ UNCHANGED <<variant, indexVars, graphVars, propVars>>
    /\ UNCHANGED NotGraph

\* propagate_scores_to_callees, lines 47-59: seeds get their intrinsic score and
\* are enqueued at depth 0 in the order the seed set is iterated
PropagateInit ==
    /\ pc = "seeded"
    /\ variant = "propagate"
    /\ include_callees
    /\ propagated_scores' =
          [sig \in seed_methods \cap DOMAIN all_methods |-> CalculateMethodScore(all_methods[sig])]
    /\ \E o \in Orders(seed_methods) :
          queue' = [i \in 1..Len(o) |-> [sig |-> o[i], depth |-> 0]]
    /\ visited' = seed_methods
    /\ pc' = "propagating"
    /\ UNCHANGED <<variant, indexVars, graphVars, received>>
    /\ UNCHANGED NotGraph

\* one iteration of the while loop: pop an entry and propagate to its callees
PropagateStep ==
    /\ pc = "propagating"
    /\ queue # <<>>
    /\ LET current_sig == Head(queue).sig
           d == Head(queue).depth
       IN  IF AtMaxDepth(d, max_depth) \/ current_sig \notin DOMAIN all_methods
           THEN /\ queue' = Tail(queue)
                /\ UNCHANGED <<propagated_scores, visited, received>>
           ELSE LET current_score == Get(propagated_scores, current_sig)
                    propagated_amount == PropagatedAmount(current_score, d)
                    callees == CalleesOf(all_methods, current_sig)
                    raised == {c \in callees :
                                 NewScore(Get(propagated_scores, c), propagated_amount)
                                    > Get(propagated_scores, c)}
                    newly == raised \ visited
                IN  /\ propagated_scores' =
                          [sig \in DOMAIN propagated_scores \cup raised |->
                              IF sig \in raised
                              THEN NewScore(Get(propagated_scores, sig), propagated_amount)
                              ELSE propagated_scores[sig]]
                    /\ visited' = visited \cup newly
                    /\ \E name_order \in Orders(all_methods[current_sig].calls_made) :
                          queue' = Tail(queue)
                                     \o EnqueueOrder(all_methods, name_order, newly, d + 1)
                    /\ received' =
                          [sig \in DOMAIN received |->
                              IF sig \in callees
                              THEN received[sig] \cup
                                     {[from |-> current_sig, amount |-> propagated_amount]}
                              ELSE received[sig]]
    /\ UNCHANGED <<pc, variant, indexVars, graphVars>>
    /\ UNCHANGED NotGraph

\* smart_extract_java_code_blocks, lines 198-203: keep the seeds and every method
\* whose propagated score reaches min_propagated_score
IncludePropagated ==
    /\ pc = "propagating"
    /\ queue = <<>>
    /\ relevant_methods' = seed_methods \cup
          {sig \in DOMAIN propagated_scores : propagated_scores[sig] >= MinPropagatedScore}
    /\ pc' = "traced"
    /\ UNCHANGED <<variant, indexVars, called_by, method_calls_map, seed_methods, depth, propVars>>
    /\ UNCHANGED NotGraph

NextGraph ==
    \/ ParseFiles
    \/ BuildCallGraph
    \/ FindSeeds
    \/ ExpandRound
    \/ NoTrace
    \/ PropagateInit
    \/ PropagateStep
    \/ IncludePropagated

SpecGraph == InitGraph /\ [][NextGraph]_vars

\* smart_extract_java_code_blocks of minimal-score-propagation.py called with
\* use_score_propagation = False: the same phases, the depth loop of lines 208-235
InitUnpropagated ==
    /\ OthersIdleGraph
    /\ pc = "unparsed"
    /\ variant = "unpropagated"
    /\ all_methods = EmptyDict
    /\ enhanced_methods = EmptyDict
    /\ max_depth \in 0..MaxDepth
    /\ include_callers = TRUE
    /\ include_callees = TRUE
    /\ called_by = EmptyDict
    /\ method_calls_map = EmptyDict
    /\ seed_methods = {}
    /\ relevant_methods = {}
    /\ depth = 0
    /\ propagated_scores = EmptyDict
    /\ queue = <<>>
    /\ visited = {}
    /\ received = EmptyDict

NextUnpropagated ==
    \/ ParseFiles
    \/ BuildCallGraph
    \/ FindSeeds
    \/ ExpandRound
    \/ NoTrace

SpecUnpropagated == InitUnpropagated /\ [][NextUnpropagated]_vars

-----------------------------------------------------------------------------
(* Smart seed selection on a registry of scored candidates *)

MaxCandidates == 6      \* scored methods tried: 0..MaxCandidates

InitSeed ==
    /\ OthersIdleSeed
    /\ pc = "start"
    /\ variant = "seed"
    /\ \E n \in 0..MaxCandidates :
          enhanced_methods \in [{CandidateSigs(n)[i] : i \in 1..n} -> ScoredPool]
    /\ all_methods = EmptyDict
    /\ max_depth = 0
    /\ include_callers = TRUE
    /\ include_callees = TRUE
    /\ called_by = EmptyDict
    /\ method_calls_map = EmptyDict
    /\ seed_methods = {}
    /\ relevant_methods = {}
    /\ depth = 0
    /\ propagated_scores = EmptyDict
    /\ queue = <<>>
    /\ visited = {}
    /\ received = EmptyDict

\* Phase 3 in smart mode (enhanced_methods non-empty), lines 88-117
SelectSeeds ==
    /\ pc = "start"
    /\ variant = "seed"
    /\ DOMAIN enhanced_methods # {}
    /\ LET r == SmartSeeds(ItemsOf(enhanced_methods))
       IN  /\ seed_methods' = r.seeds
           /\ pc' = IF r.raised THEN "raised" ELSE "seeded"
    /\ UNCHANGED <<variant, indexVars, called_by, method_calls_map, relevant_methods,
                   depth, propVars>>
    /\ UNCHANGED NotGraph

NextSeed == SelectSeeds

SpecSeed == InitSeed /\ [][NextSeed]_vars

\* the scored methods of one category
InCategory(cat) == {sig \in DOMAIN enhanced_methods : enhanced_methods[sig].category = cat}

\* C10: when smart seed selection has run with h < 5 HIGH and m MEDIUM methods,
\* it has returned a seed set of exactly min(5, h + m) members.
C10_BackfillToFive ==
    (variant = "seed" /\ pc \in {"seeded", "raised"}
        /\ Cardinality(InCategory("HIGH")) < 5) =>
        /\ pc = "seeded"
        /\ Cardinality(seed_methods)
              = Min2(5, Cardinality(InCategory("HIGH")) + Cardinality(InCategory("MEDIUM")))

-----------------------------------------------------------------------------
(* Conflict resolution on the candidates of one relevance tier *)

MaxList == 4            \* candidates per list: 0..MaxList

\* files whose paths match the descriptors of ResolveInfos in different ways
ResolvePaths ==
    {"/party/add/PartyValidator.java",
     "/customer/add/CustomerMapper.java",
     "/request/party/PartyUtil.java",
     "/request/account/add/AccountMapper.java",
     "/request/add/cda/CdaHelper.java"}

ResolveContents == {9, 15}

ResolveInfos == {PartyAddInfo, Info("acct", "add", "cda", "request")}

\* scored_methods[method_sig] of enhanced_extract_with_conflict_resolution for a
\* method of content score cs in the file fp
ScoredMethod(fp, info, cs) ==
    LET r == calculate_enhanced_path_score(fp, info)
    IN  calculate_tiebreaking_score(cs, r.score, r.match_flags)

\* the scores the methods of one tier can have under a descriptor
TierScores(info, tier) ==
    {sc \in {ScoredMethod(fp, info, cs) : fp \in ResolvePaths, cs \in ResolveContents} :
        sc.category = tier}

\* high_relevance or medium_relevance: the methods of one tier, in dict order
InitResolve ==
    /\ TrimIdle /\ GraphIdle /\ ContentIdle /\ RetrieveIdle
    /\ pc = "start"
    /\ variant \in {"HIGH", "MEDIUM"}
    /\ mapping_info \in ResolveInfos
    /\ file_path = ""
    /\ content_score = 0
    /\ path_score = 0
    /\ match_flags = NoFlags
    /\ tie = NoTie
    /\ \E n \in 0..MaxList :
          \E sc \in [1..n -> TierScores(mapping_info, variant)] :
             tier_candidates = [i \in 1..n |-> [sig |-> CandidateSigs(n)[i], score |-> sc[i]]]
    /\ resolved = <<>>
    /\ reordered = <<>>
    /\ resolved_reordered = <<>>
    /\ WalkIdle /\ TextIdle /\ SpanIdle /\ MoreIdle

NotResolve == <<trimVars, tieVars, indexVars, graphVars, propVars, contentVars, retrieveVars>>

\* resolved_high = resolve_content_conflicts(high_relevance), or the same call on
\* medium_relevance
ResolveConflicts ==
    /\ pc = "start"
    /\ variant \in {"HIGH", "MEDIUM"}
    /\ resolved' = resolve_content_conflicts(tier_candidates)
    /\ pc' = "resolved"
    /\ UNCHANGED <<variant, tier_candidates, reordered, resolved_reordered, walkVars,
                   textVars, spanVars, moreVars>>
    /\ UNCHANGED NotResolve

\* the same call on the same methods, listed in another order
ResolveReordered ==
    /\ pc = "resolved"
    /\ variant \in {"HIGH", "MEDIUM"}
    /\ \E order \in Orders(1..Len(tier_candidates)) :
          LET listed == [i \in 1..Len(tier_candidates) |-> tier_candidates[order[i]]]
          IN  /\ reordered' = listed
              /\ resolved_reordered' = resolve_content_conflicts(listed)
    /\ pc' = "compared"
    /\ UNCHANGED <<variant, tier_candidates, resolved, walkVars, textVars, spanVars, moreVars>>
    /\ UNCHANGED NotResolve

NextResolve == ResolveConflicts \/ ResolveReordered

SpecResolve == InitResolve /\ [][NextResolve]_vars

\* candidates a and b of the list under resolution, by position
RanksAbove(a, b) == LexGreater(ConflictKey(tier_candidates[a]), ConflictKey(tier_candidates[b]))

Kept(i) == tier_candidates[i].sig \in SigsOf(resolved)

\* C11: among HIGH candidates, when the resolved list keeps a candidate it also
\* keeps every candidate that ranks strictly above it by (critical structural
\* matches, path score, content score).
C11_RankingRespected ==
    (variant = "HIGH" /\ pc \in {"resolved", "compared"}) =>
        \A y \in 1..Len(tier_candidates) : \A x \in 1..Len(tier_candidates) :
            (Kept(y) /\ RanksAbove(x, y)) => Kept(x)

\* C12: for every candidate list and every permutation of it, the set of
\* candidates returned is the same.
C12_OrderIndependent ==
    pc = "compared" => SigsOf(resolved_reordered) = SigsOf(resolved)

-----------------------------------------------------------------------------
(* The index-building walk: missing_core_files.py, Phase 1 *)

MaxFiles == 3           \* files in the source tree: 0..MaxFiles

\* a .java file: whether open()/read() succeeds, whether javalang parses it, and
\* the methods its text declares
JavaFile(path, readable, parsable, declared) ==
    [path |-> path, readable |-> readable, parsable |-> parsable, methods |-> declared]

\* the text of each file of the tree; the two A.java declare the same signature
DeclaredIn(path) ==
    CASE path = "src/A.java" -> <<MethodInfo("A", "f", {"g"}, TRUE, 0)>>
      [] path = "src/B.java" -> <<MethodInfo("B", "g", {}, FALSE, 0),
                                  MethodInfo("B", "h", {"f"}, TRUE, 0)>>
      [] path = "src/sub/A.java" -> <<MethodInfo("A", "f", {}, FALSE, 0)>>
      [] path = "src/C.java" -> <<MethodInfo("C", "h", {"g"}, FALSE, 0)>>
      [] OTHER -> <<>>

TreePaths == {"src/A.java", "src/B.java", "src/sub/A.java", "src/C.java"}

\* mutant of parse_java_file: the javalang.parse.parse call is not guarded, so
\* a syntax error leaves the function as an exception
parse_java_file_unguarded(file) ==
    IF ~file.readable THEN [raised |-> FALSE, methods |-> <<>>]
    ELSE IF ~file.parsable THEN [raised |-> TRUE, methods |-> <<>>]
    ELSE [raised |-> FALSE, methods |-> file.methods]

\* parse_java_file(file_path, keywords): the list returned, and whether the call
\* raised instead
parse_java_file(file) ==
    IF ~file.readable THEN [raised |-> FALSE, methods |-> <<>>]
    ELSE IF ~file.parsable THEN [raised |-> FALSE, methods |-> <<>>]
    ELSE [raised |-> FALSE, methods |-> file.methods]

RECURSIVE Register(_, _)
\* all_methods[sig] = method for each method of the list, in order
Register(index, found) ==
    IF found = <<>> THEN index
    ELSE LET sig == FullSignature(Head(found))
         IN  Register([s \in DOMAIN index \cup {sig} |->
                          IF s = sig THEN Head(found) ELSE index[s]], Tail(found))

InitWalk ==
    /\ TrimIdle /\ TieIdle /\ ContentIdle /\ RetrieveIdle /\ ResolveIdle
    /\ TextIdle /\ SpanIdle /\ MoreIdle
    /\ pc = "walking"
    /\ variant = "walk"
    /\ \E paths \in SUBSET TreePaths :
          /\ Cardinality(paths) <= MaxFiles
          /\ \E order \in Orders(paths) :
                \E ok \in [1..Len(order) -> {"ok", "unreadable", "unparsable"}] :
                   java_files = [i \in 1..Len(order) |->
                                   JavaFile(order[i], ok[i] # "unreadable",
                                            ok[i] = "ok", DeclaredIn(order[i]))]
    /\ walked = 0
    /\ file_to_methods = EmptyDict
    /\ parse_results = <<>>
    /\ all_methods = EmptyDict
    /\ enhanced_methods = EmptyDict
    /\ called_by = EmptyDict
    /\ method_calls_map = EmptyDict
    /\ max_depth = 0
    /\ include_callers = TRUE
    /\ include_callees = TRUE
    /\ seed_methods = {}
    /\ relevant_methods = {}
    /\ depth = 0
    /\ propagated_scores = EmptyDict
    /\ queue = <<>>
    /\ visited = {}
    /\ received = EmptyDict

NotWalk == <<trimVars, tieVars, contentVars, retrieveVars, resolveVars, textVars, spanVars,
            moreVars>>

\* one iteration of the parse loop, lines 68-77: an exception of parse_java_file
\* is caught and the file skipped
ParseNextFile ==
    /\ pc = "walking"
    /\ variant = "walk"
    /\ walked < Len(java_files)
    /\ LET file == java_files[walked + 1]
           r == parse_java_file(file)
           sigs == [i \in 1..Len(r.methods) |-> FullSignature(r.methods[i])]
       IN  /\ parse_results' = Append(parse_results, r)
           /\ all_methods' = IF r.raised THEN all_methods ELSE Register(all_methods, r.methods)
           /\ file_to_methods' =
                 IF r.raised \/ r.methods = <<>> THEN file_to_methods
                 ELSE [f \in DOMAIN file_to_methods \cup {file.path} |->
                          IF f = file.path THEN Get2(file_to_methods, f) \o sigs
                          ELSE file_to_methods[f]]
    /\ walked' = walked + 1
    /\ UNCHANGED <<pc, variant, java_files, enhanced_methods, max_depth, include_callers,
                   include_callees, graphVars, propVars>>
    /\ UNCHANGED NotWalk

\* the loop is over: "Parsed n total methods"
WalkDone ==
    /\ pc = "walking"
    /\ variant = "walk"
    /\ walked = Len(java_files)
    /\ pc' = "start"
    /\ UNCHANGED <<variant, walkVars, indexVars, graphVars, propVars>>
    /\ UNCHANGED NotWalk

NextWalk == ParseNextFile \/ WalkDone

SpecWalk == InitWalk /\ [][NextWalk]_vars

Failing(file) == ~file.readable \/ ~file.parsable

SigsDeclared(file) == {FullSignature(file.methods[i]) : i \in 1..Len(file.methods)}

\* C14: parse_java_file returns an empty list for each file that cannot be read
\* or parsed, the walk goes on to the end, and the index then holds the
\* signatures of every file that parses, each entry coming from such a file,
\* and nothing registered from a failing file.
C14_FailuresIsolated ==
    /\ variant = "walk" =>
          \A i \in 1..Len(parse_results) :
              Failing(java_files[i]) =>
                  ~parse_results[i].raised /\ parse_results[i].methods = <<>>
    /\ (variant = "walk" /\ pc = "start") =>
          /\ walked = Len(java_files)
          /\ DOMAIN all_methods =
                UNION {SigsDeclared(java_files[i]) :
                          i \in {j \in 1..Len(java_files) : ~Failing(java_files[j])}}
          /\ \A sig \in DOMAIN all_methods :
                \E i \in 1..Len(java_files) :
                    /\ ~Failing(java_files[i])
                    /\ \E k \in 1..Len(java_files[i].methods) :
                          java_files[i].methods[k] = all_methods[sig]
          /\ \A i \in 1..Len(java_files) :
                Failing(java_files[i]) => java_files[i].path \notin DOMAIN file_to_methods

\* C14 witness: a walk that met an unreadable file, an unparsable file and a
\* file that parses has ended with the methods of the last in the index.
C14_Witness ==
    /\ variant = "walk"
    /\ pc = "start"
    /\ \E i \in 1..Len(java_files) : ~java_files[i].readable
    /\ \E i \in 1..Len(java_files) : java_files[i].readable /\ ~java_files[i].parsable
    /\ DOMAIN all_methods # {}

-----------------------------------------------------------------------------
(* Claims about call tracing and score propagation *)

\* a and b are joined by a caller/callee edge of the call graph
Adjacent(index, a, b) == b \in CalleesOf(index, a) \/ a \in CalleesOf(index, b)

RECURSIVE Within(_, _, _)
\* the methods joined to a member of S by a path of at most k edges
Within(index, S, k) ==
    IF k = 0 THEN S
    ELSE LET W == Within(index, S, k - 1)
         IN  W \cup {b \in DOMAIN index : \E a \in W \cap DOMAIN index : Adjacent(index, a, b)}

\* C3: in every state of an extraction, whichever rewrite runs it, each retained
\* method is a seed or is joined to a seed by a path of at most max_depth
\* caller/callee edges, on every call graph (cyclic ones included).
C3_RetainedWithinMaxDepth ==
    relevant_methods \subseteq Within(all_methods, seed_methods, max_depth)

\* C3 witness: tracing has ended on a cyclic call graph with max_depth = 1; a
\* non-seed one edge away was retained and a method two edges away was left out.
C3_Witness ==
    /\ pc = "traced"
    /\ max_depth = 1
    /\ \E a, b \in DOMAIN all_methods :
          a # b /\ b \in CalleesOf(all_methods, a) /\ a \in CalleesOf(all_methods, b)
    /\ relevant_methods \ seed_methods # {}
    /\ \E x \in DOMAIN all_methods :
          /\ x \notin Within(all_methods, seed_methods, 1)
          /\ x \in Within(all_methods, seed_methods, 2)
          /\ x \notin relevant_methods

MaxOf(S) == CHOOSE x \in S : \A y \in S : y <= x

Amounts(sig) == {r.amount : r \in received[sig]}

\* C4: when propagation has ended, a method that was offered amounts by two or
\* more scored callers holds the maximum of the offered amounts (and of its own
\* score when it is a seed), never their sum.
C4_MaxNotSum ==
    (pc = "traced" /\ variant = "propagate") =>
        \A sig \in DOMAIN all_methods :
            Cardinality(received[sig]) >= 2 =>
                Get(propagated_scores, sig) =
                    MaxOf(Amounts(sig) \cup
                          (IF sig \in seed_methods
                           THEN {CalculateMethodScore(all_methods[sig])} ELSE {}))

\* C4 witness: a non-seed was offered two different positive amounts by two
\* callers and ended with the larger one.
C4_Witness ==
    /\ pc = "traced"
    /\ variant = "propagate"
    /\ \E sig \in DOMAIN all_methods \ seed_methods :
          \E r1, r2 \in received[sig] :
              /\ r1.from # r2.from
              /\ r1.amount > r2.amount
              /\ r2.amount > 0
              /\ propagated_scores[sig] = r1.amount

\* the call chain A.f -> B.g -> C.h with no other edge, A.f the only seed
IsChain ==
    /\ DOMAIN all_methods = {"A.f()", "B.g()", "C.h()"}
    /\ all_methods["A.f()"].calls_made = {"g"}
    /\ all_methods["B.g()"].calls_made = {"h"}
    /\ all_methods["C.h()"].calls_made = {}
    /\ seed_methods = {"A.f()"}

\* C8: on the chain A -> B -> C with max_depth >= 2, B ends with A's score times
\* 0.75 and C with A's score times 0.75^2, truncated (22 and 16 for A = 30, more
\* than 5 and 3 for A = 10), and for A = 30 both are retained.
C8_ChainDecay ==
    (pc = "traced" /\ variant = "propagate" /\ IsChain /\ max_depth >= 2) =>
        LET a == propagated_scores["A.f()"]
        IN  /\ Get(propagated_scores, "B.g()") = (a * FactorNum) \div FactorDen
            /\ Get(propagated_scores, "C.h()")
                  = (a * FactorNum * FactorNum) \div (FactorDen * FactorDen)
            /\ a = 30 => /\ Get(propagated_scores, "B.g()") = 22
                         /\ Get(propagated_scores, "C.h()") = 16
                         /\ {"B.g()", "C.h()"} \subseteq relevant_methods
            /\ a = 10 => /\ Get(propagated_scores, "B.g()") > 5
                         /\ Get(propagated_scores, "C.h()") > 3

\* C17: after the call-graph build phase, for all indexed functions A and B, B
\* is in the callee set of A iff A's signature is in B.called_by iff B's bare
\* name is in A.calls_made (so every function sharing a called name is linked).
C17_CallGraphBothWays ==
    (variant = "basic" /\ pc \notin {"unparsed", "start"}) =>
        \A a \in DOMAIN all_methods : \A b \in DOMAIN all_methods :
            /\ b \in method_calls_map[a] <=> a \in called_by[b]
            /\ b \in method_calls_map[a]
                  <=> all_methods[b].method_name \in all_methods[a].calls_made

\* C17 witness: the graph is built and a call of a name that two functions share
\* is linked to both of them.
C17_Witness ==
    /\ variant = "basic"
    /\ pc = "linked"
    /\ \E a \in DOMAIN all_methods :
          \E b \in method_calls_map[a] : \E c \in method_calls_map[a] :
              /\ b # c
              /\ all_methods[b].method_name = all_methods[c].method_name
              /\ a \in called_by[b] /\ a \in called_by[c]

\* a method that scored MEDIUM or HIGH on its own (smart mode keeps such scores
\* in enhanced_methods)
IndependentlyRelevant(sig) ==
    /\ sig \in DOMAIN enhanced_methods
    /\ enhanced_methods[sig].category \in {"MEDIUM", "HIGH"}

TracingOver == pc \in {"traced", "raised"}

\* the steps of an extraction once the files are parsed
TraceSteps ==
    \/ BuildCallGraph
    \/ FindSeeds
    \/ ExpandRound
    \/ NoTrace
    \/ PropagateInit
    \/ PropagateStep
    \/ IncludePropagated

\* an extraction runs on one thread from its first statement to its return:
\* whenever a step of it is possible, a step is taken
SpecGraphFair == InitGraph /\ [][NextGraph]_vars /\ WF_vars(TraceSteps)

\* C21: graph expansion always terminates, on every call graph (cycles and
\* self-loops included): the depth loop runs at most max_depth rounds and stops
\* at the first round that admits nothing new; no function is put on the
\* breadth-first queue twice (an entry is appended only for a function not yet
\* visited, the queue never holds a function twice, visited never shrinks), and
\* the queue is empty when propagation ends; every extraction that has built
\* its index reaches the end of tracing.
C21_ExpansionTerminates ==
    /\ [](depth <= max_depth)
    /\ [][(pc \in {"seeded", "tracing"} /\ depth' = depth + 1
              /\ relevant_methods' = relevant_methods) => pc' = "traced"]_vars
    /\ [](\A i, j \in 1..Len(queue) :
              /\ queue[i].sig \in visited
              /\ i # j => queue[i].sig # queue[j].sig)
    /\ [][pc = "propagating" =>
              /\ visited \subseteq visited'
              /\ \A i \in 1..Len(queue') :
                     i >= Len(queue) => queue'[i].sig \notin visited]_vars
    /\ []((variant = "propagate" /\ pc = "traced") => queue = <<>>)
    /\ (pc = "start") ~> TracingOver

\* C21 witness: propagation has ended on a call graph where a retained non-seed
\* calls itself and was enqueued (visited) in the course of the traversal.
C21_Witness ==
    /\ pc = "traced"
    /\ variant = "propagate"
    /\ max_depth = 2
    /\ \E sig \in (visited \ seed_methods) \cap relevant_methods :
          sig \in CalleesOf(all_methods, sig)

\* C27: in smart_extract_java_code_blocks of minimal-score-propagation.py every
\* key of the callee map and every entry of a called_by set is the signature of
\* an indexed function, and with score propagation disabled and max_depth >= 1
\* the retained set holds the direct callers and callees of every seed.
C27_CallMapsUseSignatures ==
    (variant = "unpropagated" /\ pc \notin {"unparsed", "start"}) =>
        /\ DOMAIN method_calls_map \subseteq DOMAIN all_methods
        /\ \A sig \in DOMAIN all_methods : called_by[sig] \subseteq DOMAIN all_methods
        /\ (pc = "traced" /\ max_depth >= 1) =>
              \A seed \in seed_methods :
                  CalleesOf(all_methods, seed) \cup CallersOf(all_methods, seed)
                      \subseteq relevant_methods

RECURSIVE DrainQueue(_, _, _, _, _)
\* the while loop of propagate_scores_to_callees run to its end from a given
\* queue, each calls_made set being iterated in one fixed order
DrainQueue(index, score_map, q, seen, md) ==
    IF q = <<>> THEN score_map
    ELSE LET current_sig == Head(q).sig
             d == Head(q).depth
         IN  IF AtMaxDepth(d, md) \/ current_sig \notin DOMAIN index
             THEN DrainQueue(index, score_map, Tail(q), seen, md)
             ELSE LET propagated_amount == PropagatedAmount(Get(score_map, current_sig), d)
                      raised == {c \in CalleesOf(index, current_sig) :
                                   NewScore(Get(score_map, c), propagated_amount)
                                      > Get(score_map, c)}
                      newly == raised \ seen
                      name_order == CHOOSE o \in Orders(index[current_sig].calls_made) : TRUE
                  IN  DrainQueue(index,
                                 [sig \in DOMAIN score_map \cup raised |->
                                     IF sig \in raised
                                     THEN NewScore(Get(score_map, sig), propagated_amount)
                                     ELSE score_map[sig]],
                                 Tail(q) \o EnqueueOrder(index, name_order, newly, d + 1),
                                 seen \cup newly, md)

\* propagate_scores_to_callees when the seed set is iterated in seed_order
ScoresInOrder(index, seed_order, md) ==
    LET seeds == {seed_order[i] : i \in 1..Len(seed_order)}
    IN  DrainQueue(index,
                   [sig \in seeds \cap DOMAIN index |-> CalculateMethodScore(index[sig])],
                   [i \in 1..Len(seed_order) |-> [sig |-> seed_order[i], depth |-> 0]],
                   seeds, md)

\* lines 198-203: the seeds and every method at or above the inclusion floor
RetainedFor(seeds, score_map) ==
    seeds \cup {sig \in DOMAIN score_map : score_map[sig] >= MinPropagatedScore}

\* C22: score propagation is deterministic: when propagation has ended, the
\* scores it returned, and the set retained against the inclusion floor, are
\* those obtained for every other order in which the seed set can be iterated.
C22_PropagationDeterministic ==
    (pc = "traced" /\ variant = "propagate") =>
        \A seed_order \in Orders(seed_methods) :
            LET other == ScoresInOrder(all_methods, seed_order, max_depth)
            IN  /\ other = propagated_scores
                /\ RetainedFor(seed_methods, other) = relevant_methods

\* C24: in the map returned by propagate_scores_to_callees every seed holds its
\* intrinsic score (_calculate_method_score): propagation from other functions
\* never changes the score of a seed.
C24_SeedKeepsIntrinsicScore ==
    (pc = "traced" /\ variant = "propagate") =>
        \A sig \in seed_methods \cap DOMAIN all_methods :
            propagated_scores[sig] = CalculateMethodScore(all_methods[sig])

-----------------------------------------------------------------------------
(* Retrieval: extraction followed by context assembly, run twice on one tree *)

DefaultMaxChars == 2500     \* max_chars: int = 2500

\* the source file of a class, and the source text of a method that makes the
\* calls and holds the keyword its MethodInfo records
FilePathOf(m) == "/src/" \o m.class_name \o ".java"

CallText(m) ==
    Join([i \in 1..3 |-> IF <<"f", "g", "h">>[i] \in m.calls_made
                         THEN " " \o <<"f", "g", "h">>[i] \o "();" ELSE ""])

SnippetOf(m) ==
    "public void " \o m.method_name \o "() {" \o CallText(m)
        \o (IF m.contains_keywords THEN " amount++;" ELSE "") \o " }"

\* MethodInfo.get_qualified_name(), for a class in the default package
QualifiedName(m) == m.class_name \o "." \o m.method_name

\* Phase 5: the category of a retained method
Category(calls_map, seeds, sig) ==
    IF sig \in seeds THEN "SEED"
    ELSE LET is_caller == \E seed_sig \in seeds : seed_sig \in Get(calls_map, sig)
             is_callee == \E seed_sig \in seeds : sig \in Get(calls_map, seed_sig)
         IN  IF is_caller /\ is_callee THEN "CALLER_AND_CALLEE"
             ELSE IF is_caller THEN "CALLER"
             ELSE IF is_callee THEN "CALLEE"
             ELSE "INDIRECTLY_RELATED"

AnnotatedSnippet(index, calls_map, seeds, sig) ==
    "// [" \o Category(calls_map, seeds, sig) \o "] Method: " \o QualifiedName(index[sig])
        \o (IF index[sig].contains_keywords THEN " [CONTAINS KEYWORDS]" ELSE "")
        \o "\n// File: " \o FilePathOf(index[sig]) \o "\n" \o SnippetOf(index[sig])

\* results[file_path].append(snippet), results being a dict in insertion order
AppendResult(results, fpath, snippet) ==
    IF \E i \in 1..Len(results) : results[i].file = fpath
    THEN [i \in 1..Len(results) |->
             IF results[i].file = fpath
             THEN [file |-> fpath, snippets |-> Append(results[i].snippets, snippet)]
             ELSE results[i]]
    ELSE Append(results, [file |-> fpath, snippets |-> <<snippet>>])

RECURSIVE Organize(_, _, _, _, _)
\* Phase 5: the loop `for method_sig in relevant_methods`, order being the order
\* in which the set is iterated
Organize(order, results, index, calls_map, seeds) ==
    IF order = <<>> THEN results
    ELSE LET sig == Head(order)
             next == IF sig \in DOMAIN index
                     THEN AppendResult(results, FilePathOf(index[sig]),
                                       AnnotatedSnippet(index, calls_map, seeds, sig))
                     ELSE results
         IN  Organize(Tail(order), next, index, calls_map, seeds)

TightBudget == 150          \* a budget that holds one entry but not two

RetrieveBudgets == {TightBudget, DefaultMaxChars}

\* the options at their defaults, a budget, and the first run about to start
InitRetrieve ==
    /\ TieIdle
    /\ ContentIdle
    /\ OtherIdle
    /\ pc = "unparsed"
    /\ variant = "basic"
    /\ all_methods = EmptyDict
    /\ enhanced_methods = EmptyDict
    /\ max_depth \in 0..MaxDepth
    /\ include_callers = TRUE
    /\ include_callees = TRUE
    /\ called_by = EmptyDict
    /\ method_calls_map = EmptyDict
    /\ seed_methods = {}
    /\ relevant_methods = {}
    /\ depth = 0
    /\ propagated_scores = EmptyDict
    /\ queue = <<>>
    /\ visited = {}
    /\ received = EmptyDict
    /\ snippets_by_file = <<>>
    /\ max_chars \in RetrieveBudgets
    /\ context = NoContext
    /\ run = 1
    /\ first_context = NoContext

\* Phase 5 of extract_java_code_blocks_with_cross_references
OrganizeResults ==
    /\ pc = "traced"
    /\ run \in {1, 2}
    /\ \E order \in Orders(relevant_methods) :
          snippets_by_file' = Organize(order, <<>>, all_methods, method_calls_map, seed_methods)
    /\ pc' = "organized"
    /\ UNCHANGED <<variant, max_chars, context, tieVars, indexVars, graphVars, propVars,
                   contentVars, retrieveVars, otherVars>>

\* context = trim_code_context(results, max_chars)
AssembleContext ==
    /\ pc = "organized"
    /\ run \in {1, 2}
    /\ context' = trim_code_context("core", snippets_by_file, max_chars)
    /\ pc' = "returned"
    /\ UNCHANGED <<variant, snippets_by_file, max_chars, tieVars, indexVars, graphVars,
                   propVars, contentVars, retrieveVars, otherVars>>

\* the second run starts from scratch on the same tree with the same inputs
SecondRun ==
    /\ pc = "returned"
    /\ run = 1
    /\ first_context' = context
    /\ run' = 2
    /\ called_by' = [sig \in DOMAIN all_methods |-> {}]
    /\ method_calls_map' = [sig \in DOMAIN all_methods |-> {}]
    /\ seed_methods' = {}
    /\ relevant_methods' = {}
    /\ depth' = 0
    /\ snippets_by_file' = <<>>
    /\ context' = NoContext
    /\ pc' = "start"
    /\ UNCHANGED <<variant, max_chars, tieVars, indexVars, propVars, contentVars,
                   otherVars>>

NextRetrieve ==
    \/ ParseFiles
    \/ BuildCallGraph
    \/ FindSeeds
    \/ ExpandRound
    \/ NoTrace
    \/ OrganizeResults
    \/ AssembleContext
    \/ SecondRun

SpecRetrieve == InitRetrieve /\ [][NextRetrieve]_vars

\* C5: when the second of two runs on the same tree with the same inputs has
\* returned, its string is the string the first run returned, whatever the order
\* in which either run iterated the retained set.
C5_Idempotent ==
    (run = 2 /\ pc = "returned") => context = first_context

-----------------------------------------------------------------------------
(* Content scoring: calculate_content_relevance and calculate_method_relevance_score *)

Ch(s, i) == SubSeq(s, i, i)

\* the literal lit occurs in s at position i
StartsAt(s, i, lit) == i + Len(lit) - 1 <= Len(s) /\ SubSeq(s, i, i + Len(lit) - 1) = lit

Whitespace == {" ", "\n", "\t", "\r"}
Quotes == {"\"", "'"}
WordChars ==
    {"a", "b", "c", "d", "e", "f", "g", "h", "i", "j", "k", "l", "m", "n", "o", "p", "q",
     "r", "s", "t", "u", "v", "w", "x", "y", "z", "0", "1", "2", "3", "4", "5", "6", "7",
     "8", "9", "_"}

\* every character of s[a..b] is in the set / none is
AllIn(s, a, b, set) == \A i \in a..b : Ch(s, i) \in set
NoneIn(s, a, b, set) == \A i \in a..b : Ch(s, i) \notin set

RECURSIVE Split(_, _)
\* str.split(sep) for a one-character separator
Split(s, sep) ==
    IF ~Contains(sep, s) THEN <<s>>
    ELSE LET i == CHOOSE i \in 1..Len(s) : Ch(s, i) = sep /\ NoneIn(s, 1, i - 1, {sep})
         IN  <<SubSeq(s, 1, i - 1)>> \o Split(SubSeq(s, i + 1, Len(s)), sep)

RECURSIVE Strip(_)
\* str.strip()
Strip(s) ==
    IF Len(s) = 0 THEN s
    ELSE IF Ch(s, 1) \in Whitespace THEN Strip(SubSeq(s, 2, Len(s)))
    ELSE IF Ch(s, Len(s)) \in Whitespace THEN Strip(SubSeq(s, 1, Len(s) - 1))
    ELSE s

\* [seg.lower() for seg in (seg.strip() for seg in backend_xpath.split('/')) if seg]
XpathSegments(backend_xpath) ==
    IF backend_xpath = "" THEN <<>>
    ELSE LET parts == Split(backend_xpath, "/")
             stripped == [i \in 1..Len(parts) |-> Lower(Strip(parts[i]))]
         IN  SelectSeq(stripped, LAMBDA seg : seg # "")

\* re.search(r'\bseg\b', text) for a segment made of word characters
WordSearch(seg, text) ==
    \E i \in 1..(Len(text) - Len(seg) + 1) :
        /\ StartsAt(text, i, seg)
        /\ i = 1 \/ Ch(text, i - 1) \notin WordChars
        /\ i + Len(seg) > Len(text) \/ Ch(text, i + Len(seg)) \notin WordChars

\* 1. field name against the method name (0-5)
FieldNameScore(field_name, method_name_lower) ==
    IF field_name # "" /\ Len(field_name) > 2
    THEN IF field_name = method_name_lower THEN 5
         ELSE IF Contains(field_name, method_name_lower)
                    \/ Contains(method_name_lower, field_name) THEN 4
         ELSE IF LET words == Split(field_name, "_")
                 IN  \E i \in 1..Len(words) : Contains(words[i], method_name_lower) THEN 3
         ELSE 0
    ELSE 0

\* the score of one xpath segment (0-3)
SegmentScore(segment, method_name_lower, snippet_lower) ==
    IF Len(segment) > 2
    THEN IF Contains(segment, method_name_lower) THEN 3
         ELSE IF WordSearch(segment, snippet_lower) THEN 2
         ELSE IF Contains("\"" \o segment \o "\"", snippet_lower)
                    \/ Contains("'" \o segment \o "'", snippet_lower) THEN 2
         ELSE IF Contains("get" \o segment, snippet_lower)
                    \/ Contains("set" \o segment, snippet_lower) THEN 3
         ELSE 0
    ELSE 0

RECURSIVE SumSeq(_)
SumSeq(seq) == IF seq = <<>> THEN 0 ELSE Head(seq) + SumSeq(Tail(seq))

\* 2. xpath segments in the code, capped at 9
XpathScore(segments, method_name_lower, snippet_lower) ==
    Min2(SumSeq([i \in 1..Len(segments) |->
                    SegmentScore(segments[i], method_name_lower, snippet_lower)]), 9)

\* @Mapping\s*\([^)]*attr\s*=\s*["'].*field.*["'], ignoring case
MappingAttrSearch(text, attr, field) ==
    \E a \in 1..Len(text) :
      /\ StartsAt(text, a, "@mapping")
      /\ \E b \in (a + 8)..Len(text) :
           /\ AllIn(text, a + 8, b - 1, Whitespace)
           /\ Ch(text, b) = "("
           /\ \E c \in (b + 1)..Len(text) :
                /\ NoneIn(text, b + 1, c - 1, {")"})
                /\ StartsAt(text, c, attr)
                /\ \E d \in (c + Len(attr))..Len(text) :
                     /\ AllIn(text, c + Len(attr), d - 1, Whitespace)
                     /\ Ch(text, d) = "="
                     /\ \E e \in (d + 1)..Len(text) :
                          /\ AllIn(text, d + 1, e - 1, Whitespace)
                          /\ Ch(text, e) \in Quotes
                          /\ \E f \in (e + 1)..(Len(text) + 1) :
                               /\ StartsAt(text, f, field)
                               /\ \E q \in (f + Len(field))..Len(text) :
                                    /\ Ch(text, q) \in Quotes
                                    /\ NoneIn(text, e + 1, q - 1, {"\n"})

\* tag.*field, ignoring case
TagThenField(text, tag, field) ==
    \E a \in 1..Len(text) :
      /\ StartsAt(text, a, tag)
      /\ \E f \in (a + Len(tag))..(Len(text) + 1) :
           /\ StartsAt(text, f, field)
           /\ NoneIn(text, a + Len(tag), f - 1, {"\n"})

\* 3. MapStruct annotations (0-4)
MappingScore(method_snippet, field_name) ==
    LET text == Lower(method_snippet)
    IN  IF \/ MappingAttrSearch(text, "target", field_name)
           \/ MappingAttrSearch(text, "source", field_name)
           \/ TagThenField(text, "@aftermapping", field_name)
           \/ TagThenField(text, "@beforemapping", field_name)
        THEN 4
        ELSE IF ContainsAny({"@Mapping", "@AfterMapping", "@BeforeMapping"}, method_snippet)
             THEN 1 ELSE 0

\* 4. keywords in the snippet (0-2)
KeywordScore(kws, snippet_lower) ==
    IF \E i \in 1..Len(kws) : Contains(Lower(kws[i]), snippet_lower) THEN 2 ELSE 0

calculate_content_relevance(method_snippet, method_name, kws, metadata) ==
    LET field_name == Lower(metadata.field_name)
        xpath_segments == XpathSegments(metadata.backend_xpath)
        snippet_lower == Lower(method_snippet)
        method_name_lower == Lower(method_name)
        field_name_score == FieldNameScore(field_name, method_name_lower)
        xpath_score == XpathScore(xpath_segments, method_name_lower, snippet_lower)
        mapping_score == MappingScore(method_snippet, field_name)
        keyword_score == KeywordScore(kws, snippet_lower)
    IN  [field_name_matches |-> field_name_score,
         backend_xpath_matches |-> xpath_score,
         mapping_annotations |-> mapping_score,
         keyword_matches |-> keyword_score,
         total_content_score |-> field_name_score + xpath_score + mapping_score
                                    + keyword_score]

\* mutant of PlacementScore: the body match outweighs the name match
PlacementScoreBodyHeavy(keyword, name_lower, code_lower, in_name, in_code) ==
    IF Contains(keyword, name_lower) THEN in_code
    ELSE IF Contains(keyword, code_lower) THEN in_name
    ELSE 0

\* if keyword in method_name_lower: +in_name  elif keyword in method_code_lower: +in_code
PlacementScore(keyword, name_lower, code_lower, in_name, in_code) ==
    IF Contains(keyword, name_lower) THEN in_name
    ELSE IF Contains(keyword, code_lower) THEN in_code
    ELSE 0

\* the two keyword loops of calculate_method_relevance_score
KeywordPlacement(method, primary, secondary) ==
    LET name_lower == Lower(method.method_name)
        code_lower == Lower(method.snippet)
    IN  SumSeq([i \in 1..Len(primary) |->
                   PlacementScore(Lower(primary[i]), name_lower, code_lower, 50, 20)])
        + SumSeq([i \in 1..Len(secondary) |->
                   PlacementScore(Lower(secondary[i]), name_lower, code_lower, 25, 10)])

\* os.path.basename
Basename(path) == LET parts == Split(path, "/") IN parts[Len(parts)]

\* the path, file-type and method-type bonuses of calculate_method_relevance_score
PathAndTypeBonus(method, info) ==
    LET file_path_lower == Lower(method.file_path)
        file_name_lower == Lower(Basename(method.file_path))
        method_name_lower == Lower(method.method_name)
    IN  (IF info.service_name # "unknown" /\ Contains(info.service_name, file_path_lower)
         THEN 15 ELSE 0)
        + (IF info.operation # "unknown" /\ Contains(info.operation, file_path_lower)
           THEN 15 ELSE 0)
        + (IF Contains(info.direction, file_path_lower) THEN 10 ELSE 0)
        + (IF info.account_type # None /\ info.account_type # ""
                /\ Contains(info.account_type, file_path_lower) THEN 15 ELSE 0)
        + (IF ContainsAny({"mapper", "mapping"}, file_name_lower) THEN 20
           ELSE IF ContainsAny({"validator", "validation"}, file_name_lower) THEN 15
           ELSE IF ContainsAny({"service", "processor"}, file_name_lower) THEN 10
           ELSE 0)
        + (IF ContainsAny({"map", "transform", "convert"}, method_name_lower) THEN 10 ELSE 0)
        + (IF ContainsAny({"validate", "check", "verify"}, method_name_lower) THEN 8 ELSE 0)

calculate_method_relevance_score(method, primary, secondary, info) ==
    KeywordPlacement(method, primary, secondary) + PathAndTypeBonus(method, info)

Method(name, snippet, path) == [method_name |-> name, snippet |-> snippet, file_path |-> path]

\* parsed functions; a snippet is the source text of the function, declaration included
MethodPool ==
    {Method("amount", "double amount() { return a; }", "/request/acct/add/AcctMapper.java"),
     Method("Amount", "int Amount() {}", "/util/Calc.java"),
     Method("calc", "void calc() { x = amount; }", "/util/Calc.java"),
     Method("calc", "void calc() { y = getAmount(); }", "/request/party/PartyService.java"),
     Method("total", "void total() { t = 1; }", "/util/Calc.java"),
     Method("setRate", "@Mapping(target = \"amount\")\nvoid setRate() {}",
            "/request/acct/add/AcctMapper.java"),
     Method("getAmount", "int getAmount() { return amount; }", "/util/AcctValidator.java"),
     Method("id", "int id() { return 1; }", "/util/Calc.java"),
     Method("run", "void run() { id = 2; }", "/util/Calc.java")}

KeywordLists == {<<>>, <<"amount">>, <<"Amount", "rate">>, <<"id">>}
SecondaryLists == {<<>>, <<"rate">>, <<"amount">>}

MetadataPool ==
    {NoMetadata,
     [field_name |-> "amount", backend_xpath |-> "/Acct/amount"],
     [field_name |-> "rate_amount", backend_xpath |-> "/rate"],
     [field_name |-> "Id", backend_xpath |-> "/id/amount/ amount "]}

\* Two parsed functions and the scoring inputs: keywords and field metadata for
\* calculate_content_relevance (variant "content"), primary and secondary
\* keywords and the mapping descriptor for calculate_method_relevance_score
\* (variant "placement").
InitContent ==
    /\ TrimIdle
    /\ GraphIdle
    /\ RetrieveIdle
    /\ OtherIdle
    /\ pc = "start"
    /\ variant \in {"content", "placement"}
    /\ methods \in [1..2 -> MethodPool]
    /\ keywords \in KeywordLists
    /\ scores = <<>>
    /\ file_path = ""
    /\ content_score = 0
    /\ path_score = 0
    /\ match_flags = NoFlags
    /\ tie = NoTie
    /\ \/ /\ variant = "content"
          /\ field_metadata \in MetadataPool
          /\ secondary_keywords = <<>>
          /\ mapping_info = Info("", "", None, "")
       \/ /\ variant = "placement"
          /\ field_metadata = NoMetadata
          /\ secondary_keywords \in SecondaryLists
          /\ mapping_info \in {PartyAddInfo, Info("acct", "add", "cda", "request")}

NotContent == <<trimVars, indexVars, graphVars, propVars, retrieveVars, otherVars>>

\* content_score = calculate_content_relevance(method.snippet, method.method_name, ...)
ScoreContent ==
    /\ pc = "start"
    /\ variant = "content"
    /\ scores' = [i \in 1..Len(methods) |->
                     calculate_content_relevance(methods[i].snippet, methods[i].method_name,
                                                 keywords, field_metadata)]
    /\ pc' = "scored"
    /\ UNCHANGED <<variant, tieVars, methods, keywords, secondary_keywords, field_metadata>>
    /\ UNCHANGED NotContent

\* score = calculate_method_relevance_score(method, primary, secondary, mapping_info)
ScorePlacement ==
    /\ pc = "start"
    /\ variant = "placement"
    /\ scores' = [i \in 1..Len(methods) |->
                     [keyword_placement |->
                          KeywordPlacement(methods[i], keywords, secondary_keywords),
                      relevance_score |->
                          calculate_method_relevance_score(methods[i], keywords,
                                                           secondary_keywords, mapping_info)]]
    /\ pc' = "scored"
    /\ UNCHANGED <<variant, tieVars, methods, keywords, secondary_keywords, field_metadata>>
    /\ UNCHANGED NotContent

NextContent == ScoreContent \/ ScorePlacement

SpecContent == InitContent /\ [][NextContent]_vars

-----------------------------------------------------------------------------
(* Claims about content scoring *)

\* the function matches keyword k in its text but not in its name
BodyOnlyMatch(g, k) ==
    /\ Contains(Lower(k), Lower(g.snippet))
    /\ ~Contains(Lower(k), Lower(g.method_name))

\* nothing but keyword k contributes to the score of function number i
NoOtherSignal(i, k) ==
    IF variant = "content"
    THEN /\ scores[i].field_name_matches = 0
         /\ scores[i].mapping_annotations = 0
         /\ LET segments == XpathSegments(field_metadata.backend_xpath)
            IN  \A j \in 1..Len(segments) :
                   SegmentScore(segments[j], Lower(methods[i].method_name),
                                Lower(methods[i].snippet)) > 0
                      => segments[j] = Lower(k)
    ELSE LET all == keywords \o secondary_keywords
         IN  \A j \in 1..Len(all) :
                Lower(all[j]) # Lower(k) =>
                    PlacementScore(Lower(all[j]), Lower(methods[i].method_name),
                                   Lower(methods[i].snippet), 1, 1) = 0

\* the content score of function number i
ContentScoreOf(i) ==
    IF variant = "content" THEN scores[i].total_content_score
    ELSE scores[i].keyword_placement

\* function 1 is named k, function 2 matches k in its body only and nothing else
NameVersusBody(k) ==
    /\ methods[1].method_name = k
    /\ BodyOnlyMatch(methods[2], k)
    /\ NoOtherSignal(2, k)

\* C9: once two functions are scored, for every keyword k: if the first is named
\* exactly k and the second matches k only in its body and has no other content
\* signal, the first function's content score is at least the second's.
C9_NameBeatsBody ==
    (pc = "scored" /\ variant \in {"content", "placement"}) =>
        \A j \in 1..Len(keywords) :
            NameVersusBody(keywords[j]) => ContentScoreOf(1) >= ContentScoreOf(2)

\* C9 witness: calculate_content_relevance has scored a function named as the
\* keyword and a function whose body matches it both as keyword and as xpath segment.
C9_Witness ==
    /\ pc = "scored"
    /\ variant = "content"
    /\ \E j \in 1..Len(keywords) : NameVersusBody(keywords[j])
    /\ scores[2].backend_xpath_matches > 0
    /\ scores[2].keyword_matches = 2
    /\ scores[1].total_content_score >= scores[2].total_content_score

-----------------------------------------------------------------------------
(* Inputs of the context assembler *)

MaxSnippets == 3        \* most annotated snippets in one call
BudgetUnit == 37        \* budgets tried are the multiples of this
MaxBudgetUnits == 6

Files == {"A", "Bb"}
SnippetPool ==
    {"[SEED] s;", "public p() {}", "z", "[HIGH] checkAll", "[LOW] KEYWORD_MATCH"}

SnippetLists(n) == UNION {[1..k -> SnippetPool] : k \in 1..n}

\* dicts file -> non-empty list, in insertion order, at most MaxSnippets snippets
SnippetDicts ==
    {<<>>}
    \cup {<<[file |-> f, snippets |-> l]>> : f \in Files, l \in SnippetLists(MaxSnippets)}
    \cup {<<[file |-> fl[1], snippets |-> ll[1]], [file |-> fl[2], snippets |-> ll[2]]>> :
            fl \in {x \in Files \X Files : x[1] # x[2]},
            ll \in {y \in SnippetLists(MaxSnippets - 1) \X SnippetLists(MaxSnippets - 1) :
                        Len(y[1]) + Len(y[2]) <= MaxSnippets}}

Budgets == {BudgetUnit * i : i \in 0..MaxBudgetUnits}

InitTrim ==
    /\ OthersIdleTrim
    /\ pc = "start"
    /\ variant \in {"core", "optimized"}
    /\ snippets_by_file \in SnippetDicts
    /\ max_chars \in Budgets
    /\ context = NoContext

\* one call of trim_code_context
Trim ==
    /\ pc = "start"
    /\ variant \in {"core", "optimized"}
    /\ context' = trim_code_context(variant, snippets_by_file, max_chars)
    /\ pc' = "done"
    /\ UNCHANGED <<variant, snippets_by_file, max_chars>>
    /\ UNCHANGED NotTrim

NextTrim == Trim

SpecTrim == InitTrim /\ [][NextTrim]_vars

-----------------------------------------------------------------------------
(* Claims about the context assembler *)

TrimReturned == pc = "done" /\ variant \in {"core", "optimized"}

\* the priority-sorted candidate chunks of the call
RankedChunks ==
    LET r == SortByPriority(RankAll(variant, snippets_by_file))
    IN  [i \in 1..Len(r) |-> Chunk(variant, r[i].fpath, r[i].snippet)]

\* C1: the string trim_code_context returns is never longer than max_chars.
C1_OutputWithinBudget == TrimReturned => Len(context) <= max_chars

\* C1 witness: a call that had to drop entries and returned a non-empty string.
C1_Witness ==
    /\ TrimReturned
    /\ Len(context) > 0
    /\ SumLen(RankedChunks) > max_chars

\* number of leading chunks whose cumulative length fits the budget
FittingPrefix ==
    LET rc == RankedChunks
        fit == {k \in 0..Len(rc) : SumLen(SubSeq(rc, 1, k)) <= max_chars}
    IN  CHOOSE k \in fit : \A j \in fit : j <= k

\* C2: the output is exactly the longest fitting prefix of the priority-sorted
\* entries, concatenated in priority order; nothing after the first overflow is kept.
C2_GreedyPrefix ==
    TrimReturned => context = Join(SubSeq(RankedChunks, 1, FittingPrefix))

\* C2 witness: the first overflowing entry is followed by a shorter entry that
\* would still have fitted, and it is dropped all the same.
C2_Witness ==
    /\ TrimReturned
    /\ LET rc == RankedChunks
           k == FittingPrefix
       IN  /\ k + 2 <= Len(rc)
           /\ \E j \in (k + 2)..Len(rc) :
                 SumLen(SubSeq(rc, 1, k)) + Len(rc[j]) <= max_chars
           /\ context = Join(SubSeq(rc, 1, k))

-----------------------------------------------------------------------------
(* Seed selection by score: SmartJavaExtractor of enhanced_integration_strategy.py
   and the mixin of minimal-score-propagation.py *)

MappingSheetInfo(op, acct, dir) == [operation |-> op, account_type |-> acct, direction |-> dir]

\* self.operations
Operations == {"add", "inq", "mod", "del"}

\* re.search(first + ".*" + second, text): first occurs, and second after it
SearchThenAny(text, first, second) ==
    \E i \in 1..Len(text) :
        /\ StartsAt(text, i, first)
        /\ \E j \in (i + Len(first))..(Len(text) + 1) : StartsAt(text, j, second)

\* '/'.join(Path(path_lower).parts): the root of an absolute path is a part
PathStr(path_lower) ==
    IF StartsAt(path_lower, 1, "/") THEN "/" \o path_lower ELSE path_lower

\* _matches_standard_structure(path_parts, mapping_info)
MatchesStandardStructure(path_str, info) ==
    \/ SearchThenAny(path_str, info.direction, info.operation)
    \/ IF info.account_type # None
       THEN SearchThenAny(path_str, info.operation, info.account_type)
       ELSE Contains(info.operation, path_str)

\* re.search(a + ".*" + b + ".*" + c, text)
SearchThree(text, a, b, c) ==
    \E i \in 1..Len(text) :
        /\ StartsAt(text, i, a)
        /\ SearchThenAny(SubSeq(text, i + Len(a), Len(text)), b, c)

\* _matches_mapper_structure(path_parts, mapping_info)
MatchesMapperStructure(path_str, info) ==
    /\ Contains("mapper", path_str)
    /\ \/ SearchThree(path_str, "mapper", info.direction, info.operation)
       \/ SearchThree(path_str, "mapper", info.operation, info.direction)

\* calculate_path_relevance(file_path, mapping_info).total_score
calculate_path_relevance(fp, info) ==
    LET path_lower == Lower(fp)
        path_str == PathStr(path_lower)
        operation_score ==
            IF Contains(info.operation, path_lower) THEN 3
            ELSE IF \E op \in Operations \ {info.operation} : Contains(op, path_lower) THEN 1
            ELSE IF Contains(info.direction, path_lower) THEN 2
            ELSE 0
        account_type_score ==
            IF info.account_type # None
            THEN IF Contains(info.account_type, path_lower) THEN 2
                 ELSE IF Contains("all", path_lower) \/ Contains("common", path_lower) THEN 1
                 ELSE 0
            ELSE 2
        direction_score ==
            IF Contains(info.direction, path_lower) THEN 2
            ELSE IF \/ Contains("request", path_lower) /\ info.direction = "response"
                    \/ Contains("response", path_lower) /\ info.direction = "request"
            THEN 0
            ELSE 1
        structure_score ==
            IF MatchesStandardStructure(path_str, info) THEN 3
            ELSE IF MatchesMapperStructure(path_str, info) THEN 2
            ELSE IF ContainsAny({"processor", "controller", "service"}, path_lower) THEN 1
            ELSE 0
    IN  operation_score + account_type_score + direction_score + structure_score

\* an EnhancedMethodInfo, with the lengths of its three lists
EnhancedMethodInfo(cls, name, fp, kw, rel, n_ann, n_xpath) ==
    [class_name |-> cls, method_name |-> name, param_types |-> "", file_path |-> fp,
     calls_made |-> {}, contains_keywords |-> kw, relevance_total |-> rel,
     n_mapping_annotations |-> n_ann, n_field_mappings |-> 0,
     n_backend_xpath_matches |-> n_xpath]

\* the score _find_smart_seed_methods gives a method
SmartSeedScore(m) ==
    (IF m.contains_keywords THEN 3 ELSE 0) + m.relevance_total
        + m.n_mapping_annotations * 2 + m.n_field_mappings * 3 + m.n_backend_xpath_matches

\* _find_smart_seed_methods(all_methods, keywords, mapping_info)
FindSmartSeedMethods(index) == {sig \in DOMAIN index : SmartSeedScore(index[sig]) >= 6}

MaxMethods == 2         \* methods in the index: 0..MaxMethods

SeedPaths ==
    {"/src/request/add/PartyMapper.java",
     "/src/util/StringHelper.java",
     "/src/response/inq/sda/AcctProcessor.java"}

SeedInfos ==
    {MappingSheetInfo("add", None, "request"),
     MappingSheetInfo("inq", "sda", "response"),
     MappingSheetInfo("unknown", None, "request")}

\* per method: contains_keywords, number of @Mapping lines, number of xpath-like matches
SeedAttributes == {<<FALSE, 0, 0>>, <<TRUE, 0, 0>>, <<FALSE, 1, 0>>, <<FALSE, 0, 1>>}

SeedClasses == <<"P", "Q", "R">>

\* the index after parsing, each method carrying the path relevance of its file
InitSeedScore ==
    /\ TrimIdle /\ ContentIdle /\ RetrieveIdle /\ OtherIdle
    /\ pc = "linked"
    /\ variant \in {"keyword", "smart_score", "intrinsic_score"}
    /\ mapping_info \in SeedInfos
    /\ file_path = ""
    /\ content_score = 0
    /\ path_score = 0
    /\ match_flags = NoFlags
    /\ tie = NoTie
    /\ \E n \in 0..MaxMethods :
          \E fps \in [1..n -> SeedPaths] : \E at \in [1..n -> SeedAttributes] :
             all_methods =
                [sig \in {SeedClasses[i] \o ".m()" : i \in 1..n} |->
                    LET i == CHOOSE i \in 1..n : SeedClasses[i] \o ".m()" = sig
                    IN  EnhancedMethodInfo(SeedClasses[i], "m", fps[i], at[i][1],
                            calculate_path_relevance(fps[i], mapping_info),
                            at[i][2], at[i][3])]
    /\ enhanced_methods = EmptyDict
    /\ called_by = [sig \in DOMAIN all_methods |-> {}]
    /\ method_calls_map = [sig \in DOMAIN all_methods |-> {}]
    /\ max_depth = 0
    /\ include_callers = TRUE
    /\ include_callees = TRUE
    /\ seed_methods = {}
    /\ relevant_methods = {}
    /\ depth = 0
    /\ propagated_scores = EmptyDict
    /\ queue = <<>>
    /\ visited = {}
    /\ received = EmptyDict

\* seed selection by the routine named by variant, then
\* relevant_methods = set(seed_methods)
FindSeedsByScore ==
    /\ pc = "linked"
    /\ variant \in {"keyword", "smart_score", "intrinsic_score"}
    /\ seed_methods' =
          CASE variant = "keyword" -> KeywordSeeds(all_methods)
            [] variant = "smart_score" -> FindSmartSeedMethods(all_methods)
            [] variant = "intrinsic_score" -> FindSeedMethods(all_methods)
    /\ relevant_methods' = seed_methods'
    /\ pc' = "seeded"
    /\ UNCHANGED <<variant, indexVars, called_by, method_calls_map, depth, propVars>>
    /\ UNCHANGED NotGraph

NextSeedScore == FindSeedsByScore

SpecSeedScore == InitSeedScore /\ [][NextSeedScore]_vars

NoKeywordAnywhere == \A sig \in DOMAIN all_methods : ~all_methods[sig].contains_keywords

\* C15: when no indexed function contains a keyword, each seed-selection
\* routine returns the empty seed set and the retained set is empty.
C15_NoKeywordNoSeed ==
    (variant \in {"keyword", "smart_score", "intrinsic_score"} /\ pc = "seeded"
        /\ NoKeywordAnywhere) =>
        seed_methods = {} /\ relevant_methods = {}

-----------------------------------------------------------------------------
(* The keyword test of parse_java_file: contains_relevant_keywords *)

RECURSIVE JoinLines(_)
\* "\n".join(lines)
JoinLines(lines) ==
    IF lines = <<>> THEN ""
    ELSE IF Len(lines) = 1 THEN lines[1]
    ELSE lines[1] \o "\n" \o JoinLines(Tail(lines))

\* the test of one line: it is not skipped, and some keyword occurs in it
LineMatches(line, kws) ==
    LET stripped == Strip(line)
    IN  /\ ~StartsAt(stripped, 1, "@")
        /\ ~StartsAt(stripped, 1, "//")
        /\ ~StartsAt(stripped, 1, "/*")
        /\ ~StartsAt(stripped, 1, "*")
        /\ \E i \in 1..Len(kws) : Contains(Lower(kws[i]), Lower(stripped))

\* contains_relevant_keywords(snippet, keywords)
contains_relevant_keywords(snippet, kws) ==
    LET lines == Split(snippet, "\n")
    IN  \E i \in 1..Len(lines) : LineMatches(lines[i], kws)

MaxFragments == 2       \* fragments per snippet: 1..MaxFragments

\* a line of Java source and the part of it that is code, i.e. outside comments
\* and annotations
SourceLine(text, code) == [text |-> text, code |-> code]

\* pieces of a method's text: code with and without the keyword, a whole-line
\* comment, a trailing comment, block comments, an annotation
Fragments ==
    {<<SourceLine("  String postalCode = in.get();", "  String postalCode = in.get();")>>,
     <<SourceLine("  return out;", "  return out;")>>,
     <<SourceLine("  // copy the postalCode", "")>>,
     <<SourceLine("  int n = 0; // postalCode count", "  int n = 0; ")>>,
     <<SourceLine("  /*", ""), SourceLine("    postalCode is optional", ""),
       SourceLine("  */", "")>>,
     <<SourceLine("  /**", ""), SourceLine("   * the postalCode", ""),
       SourceLine("   */", "")>>,
     <<SourceLine("  @Mapping(target = \"postalCode\")", "")>>}

TextKeywords == {<<"postalCode">>, <<"zip", "PostalCode">>, <<"zip">>}

InitKeywords ==
    /\ TrimIdle /\ TieIdle /\ GraphIdle /\ RetrieveIdle
    /\ ResolveIdle /\ WalkIdle /\ SpanIdle /\ MoreIdle
    /\ pc = "start"
    /\ variant = "keywords"
    /\ \E n \in 1..MaxFragments :
          \E fr \in [1..n -> Fragments] :
             snippet_lines = IF n = 1 THEN fr[1] ELSE fr[1] \o fr[2]
    /\ has_keywords = FALSE
    /\ keywords \in TextKeywords
    /\ methods = <<>>
    /\ secondary_keywords = <<>>
    /\ field_metadata = NoMetadata
    /\ scores = <<>>

NotKeywords == <<trimVars, tieVars, indexVars, graphVars, propVars, retrieveVars,
                 resolveVars, walkVars, spanVars, moreVars>>

\* contains_keywords = contains_relevant_keywords(snippet, keywords)
TestKeywords ==
    /\ pc = "start"
    /\ variant = "keywords"
    /\ has_keywords' =
          contains_relevant_keywords(
              JoinLines([i \in 1..Len(snippet_lines) |-> snippet_lines[i].text]), keywords)
    /\ pc' = "tested"
    /\ UNCHANGED <<variant, snippet_lines, contentVars>>
    /\ UNCHANGED NotKeywords

NextKeywords == TestKeywords

SpecKeywords == InitKeywords /\ [][NextKeywords]_vars

\* some keyword occurs in code outside comments and annotations
KeywordInCode ==
    \E i \in 1..Len(snippet_lines) : \E k \in 1..Len(keywords) :
        Contains(Lower(keywords[k]), Lower(snippet_lines[i].code))

\* C18: contains_relevant_keywords returns true only if some keyword occurs in
\* code outside comments and annotations.
C18_CommentsDoNotCount ==
    (variant = "keywords" /\ pc = "tested" /\ has_keywords) => KeywordInCode

-----------------------------------------------------------------------------
(* The span of a method: find_method_end *)

RECURSIVE ScanChars(_, _, _, _)
\* for char in line, from the k-th character on: the counters after the line,
\* or returned = TRUE when the function returns at this line
ScanChars(line, k, brace_count, in_method_body) ==
    IF k > Len(line)
    THEN [returned |-> FALSE, brace_count |-> brace_count, in_method_body |-> in_method_body]
    ELSE IF Ch(line, k) = "{"
    THEN ScanChars(line, k + 1, brace_count + 1, TRUE)
    ELSE IF Ch(line, k) = "}"
    THEN IF brace_count - 1 = 0 /\ in_method_body
         THEN [returned |-> TRUE, brace_count |-> 0, in_method_body |-> TRUE]
         ELSE ScanChars(line, k + 1, brace_count - 1, in_method_body)
    ELSE ScanChars(line, k + 1, brace_count, in_method_body)

\* a line the loop passes over: blank, or starting with //, /* or *
Skipped(line) ==
    \/ line = ""
    \/ StartsAt(line, 1, "//")
    \/ StartsAt(line, 1, "/*")
    \/ StartsAt(line, 1, "*")

RECURSIVE ScanLinesNoFallback(_, _, _, _)
\* mutant of ScanLines: when the balance never returns to zero the function
\* returns len(code_lines), one past the last line
ScanLinesNoFallback(lines, i, brace_count, in_method_body) ==
    IF i >= Len(lines) THEN Len(lines)
    ELSE LET line == Strip(lines[i + 1])
         IN  IF Skipped(line)
             THEN ScanLinesNoFallback(lines, i + 1, brace_count, in_method_body)
             ELSE LET r == ScanChars(line, 1, brace_count, in_method_body)
                  IN  IF r.returned THEN i
                      ELSE ScanLinesNoFallback(lines, i + 1, r.brace_count, r.in_method_body)

RECURSIVE ScanLines(_, _, _, _)
\* for i in range(i, len(code_lines)), then return len(code_lines) - 1; lines
\* are indexed from 0 as in the source
ScanLines(lines, i, brace_count, in_method_body) ==
    IF i >= Len(lines) THEN Len(lines) - 1
    ELSE LET line == Strip(lines[i + 1])
         IN  IF Skipped(line)
             THEN ScanLines(lines, i + 1, brace_count, in_method_body)
             ELSE LET r == ScanChars(line, 1, brace_count, in_method_body)
                  IN  IF r.returned THEN i
                      ELSE ScanLines(lines, i + 1, r.brace_count, r.in_method_body)

\* find_method_end(code_lines, start_line)
find_method_end(lines, start) == ScanLines(lines, start, 0, FALSE)

MaxLines == 4           \* lines in the file: 1..MaxLines

\* a line of the file: its code, and its // comment if it has one
CodeLine(code, comment) == [code |-> code, comment |-> comment]

LinePool ==
    {CodeLine("void f() {", ""),
     CodeLine("}", ""),
     CodeLine("", ""),
     CodeLine("  ", "// }"),
     CodeLine("  x(); ", "// }"),
     CodeLine("  if (a) { b(); }", "")}

RECURSIVE WithoutBraces(_)
\* a comment with its '{' and '}' characters removed
WithoutBraces(comment) ==
    IF comment = "" THEN ""
    ELSE IF Ch(comment, 1) \in {"{", "}"} THEN WithoutBraces(SubSeq(comment, 2, Len(comment)))
    ELSE Ch(comment, 1) \o WithoutBraces(SubSeq(comment, 2, Len(comment)))

\* the text of the lines as the file holds them, and with the braces taken out
\* of the // comments
TextOf(lines) == [i \in 1..Len(lines) |-> lines[i].code \o lines[i].comment]
PlainTextOf(lines) == [i \in 1..Len(lines) |-> lines[i].code \o WithoutBraces(lines[i].comment)]

InitSpan ==
    /\ TrimIdle /\ TieIdle /\ GraphIdle /\ ContentIdle /\ RetrieveIdle
    /\ ResolveIdle /\ WalkIdle /\ TextIdle /\ MoreIdle
    /\ pc = "start"
    /\ variant = "span"
    /\ \E n \in 1..MaxLines : code_lines \in [1..n -> LinePool]
    /\ start_line \in 0..(Len(code_lines) - 1)
    /\ end_line = 0
    /\ end_line_plain = 0

NotSpan == <<trimVars, tieVars, indexVars, graphVars, propVars, contentVars, retrieveVars,
             resolveVars, walkVars, textVars, moreVars>>

\* end_line = find_method_end(code_lines, start_line)
FindMethodEnd ==
    /\ pc = "start"
    /\ variant = "span"
    /\ end_line' = find_method_end(TextOf(code_lines), start_line)
    /\ pc' = "found"
    /\ UNCHANGED <<variant, code_lines, start_line, end_line_plain>>
    /\ UNCHANGED NotSpan

\* the same call on the same file after the braces inside its // comments have
\* been removed
FindMethodEndPlain ==
    /\ pc = "found"
    /\ variant = "span"
    /\ end_line_plain' = find_method_end(PlainTextOf(code_lines), start_line)
    /\ pc' = "compared"
    /\ UNCHANGED <<variant, code_lines, start_line, end_line>>
    /\ UNCHANGED NotSpan

NextSpan == FindMethodEnd \/ FindMethodEndPlain

SpecSpan == InitSpan /\ [][NextSpan]_vars

\* C19: adding or removing '{' or '}' characters inside a line comment never
\* changes the end line that find_method_end returns.
C19_CommentBracesIgnored ==
    (variant = "span" /\ pc = "compared") => end_line = end_line_plain

RECURSIVE BracesOfLine(_, _, _)
\* the braces of a line from its k-th character on, each with the line index i
BracesOfLine(line, i, k) ==
    IF k > Len(line) THEN <<>>
    ELSE (IF Ch(line, k) \in {"{", "}"} THEN <<[line |-> i, ch |-> Ch(line, k)]>> ELSE <<>>)
            \o BracesOfLine(line, i, k + 1)

RECURSIVE ScannedBraces(_, _)
\* the braces the scan reads from line i on: those of the lines not skipped
ScannedBraces(lines, i) ==
    IF i >= Len(lines) THEN <<>>
    ELSE (IF Skipped(Strip(lines[i + 1])) THEN <<>>
          ELSE BracesOfLine(Strip(lines[i + 1]), i, 1))
            \o ScannedBraces(lines, i + 1)

\* opening minus closing braces among the first n read
Balance(braces, n) ==
    Cardinality({j \in 1..n : braces[j].ch = "{"})
        - Cardinality({j \in 1..n : braces[j].ch = "}"})

\* the lines where a closing brace brings the balance back to zero after a '{'
ClosingLines(braces) ==
    {braces[n].line : n \in {m \in 1..Len(braces) :
        /\ braces[m].ch = "}"
        /\ Balance(braces, m) = 0
        /\ \E j \in 1..m : braces[j].ch = "{"}}

-----------------------------------------------------------------------------
(* Parsing one file: the snippet of each method and the calls found in it *)

\* [a-zA-Z0-9_] and its subsets
IsWordChar(c) == LowerChar(c) \in WordChars
Digits == {"0", "1", "2", "3", "4", "5", "6", "7", "8", "9"}
IsUpper(c) == LowerChar(c) # c

RECURSIVE WordEnd(_, _)
\* the last position of the run of word characters that holds position i
WordEnd(s, i) ==
    IF i < Len(s) /\ IsWordChar(Ch(s, i + 1)) THEN WordEnd(s, i + 1) ELSE i

RECURSIVE SkipSpace(_, _)
\* the first position at or after i that holds no whitespace: \s*
SkipSpace(s, i) ==
    IF i <= Len(s) /\ Ch(s, i) \in Whitespace THEN SkipSpace(s, i + 1) ELSE i

\* re.findall(r'\b([a-zA-Z_][a-zA-Z0-9_]*)\s*\(', snippet): the identifiers that
\* start at a word boundary and are followed, after optional whitespace, by "("
\* (the second pattern, r'\.([a-zA-Z_][a-zA-Z0-9_]*)\s*\(', finds a subset of them)
CallMatches(snippet) ==
    {SubSeq(snippet, i, WordEnd(snippet, i)) :
        i \in {k \in 1..Len(snippet) :
                 /\ IsWordChar(Ch(snippet, k))
                 /\ Ch(snippet, k) \notin Digits
                 /\ k = 1 \/ ~IsWordChar(Ch(snippet, k - 1))
                 /\ LET j == SkipSpace(snippet, WordEnd(snippet, k) + 1)
                    IN  j <= Len(snippet) /\ Ch(snippet, j) = "("}}

keywords_to_ignore == {"if", "while", "for", "switch", "catch", "synchronized", "return"}

\* extract_method_calls(snippet)
extract_method_calls(snippet) ==
    {call \in CallMatches(snippet) :
        /\ call \notin keywords_to_ignore
        /\ ~IsUpper(Ch(call, 1))
        /\ Len(call) > 1}

\* the keywords of the extraction
ParseKeywords == <<"postalCode">>

\* the body of the loop over the MethodDeclaration nodes of parse_java_file:
\* the snippet runs from the declared line to find_method_end
ExtractMethod(lines, node) ==
    LET first == node.line - 1
        last == find_method_end(lines, first)
        snippet == JoinLines(SubSeq(lines, first + 1, last + 1))
    IN  MethodInfo(node.class_name, node.method_name, extract_method_calls(snippet),
                   contains_relevant_keywords(snippet, ParseKeywords), 0)

MaxDecls == 2           \* methods per file: 1..MaxDecls

\* method texts: a caller of check, a method of the same name in another class,
\* a method with an if, a recursive method, an empty method, a one-line method
Blocks ==
    {[class_name |-> "A", method_name |-> "validate",
      text |-> <<"  public void validate(String s) {", "    check(s);", "  }">>],
     [class_name |-> "B", method_name |-> "validate",
      text |-> <<"  void validate() {", "    log.info(postalCode);", "  }">>],
     [class_name |-> "A", method_name |-> "check",
      text |-> <<"  void check(String s) {", "    if (s == null) { return; }", "  }">>],
     [class_name |-> "C", method_name |-> "walk",
      text |-> <<"  void walk(Node n) {", "    walk(n.next);", "  }">>],
     [class_name |-> "B", method_name |-> "info",
      text |-> <<"  void info(String m) {", "  }">>],
     [class_name |-> "D", method_name |-> "size",
      text |-> <<"  int size() { return n; }">>]}

RECURSIVE FileText(_)
FileText(blocks) == IF blocks = <<>> THEN <<>> ELSE Head(blocks).text \o FileText(Tail(blocks))

\* the node javalang reports for the i-th method, position.line counted from 1
NodeOf(blocks, i) ==
    [class_name |-> blocks[i].class_name, method_name |-> blocks[i].method_name,
     line |-> Len(FileText(SubSeq(blocks, 1, i - 1))) + 1]

\* a file of distinct methods that has been read and parsed by javalang
InitParse ==
    /\ TrimIdle /\ TieIdle /\ GraphIdle /\ ContentIdle /\ RetrieveIdle
    /\ ResolveIdle /\ WalkIdle /\ TextIdle /\ SpanIdle /\ AssembleIdle /\ LateIdle
    /\ pc = "parsed_tree"
    /\ variant = "basic"
    /\ \E n \in 1..MaxDecls :
          \E blocks \in [1..n -> Blocks] :
             /\ \A i, j \in 1..n : i # j => blocks[i] # blocks[j]
             /\ source_lines = FileText(blocks)
             /\ declarations = [i \in 1..n |-> NodeOf(blocks, i)]

\* parse_java_file from the method loop on, and the registration of its result
ExtractMethods ==
    /\ pc = "parsed_tree"
    /\ LET found == [i \in 1..Len(declarations) |->
                        ExtractMethod(source_lines, declarations[i])]
           index == Register(EmptyDict, found)
       IN  /\ all_methods' = index
           /\ called_by' = [sig \in DOMAIN index |-> {}]
           /\ method_calls_map' = [sig \in DOMAIN index |-> {}]
    /\ pc' = "start"
    /\ UNCHANGED <<variant, enhanced_methods, max_depth, include_callers, include_callees,
                   seed_methods, relevant_methods, depth, propVars, parseVars>>
    /\ UNCHANGED <<trimVars, tieVars, contentVars, retrieveVars, resolveVars, walkVars,
                   textVars, spanVars, assembleVars, lateVars>>

NextParse == ExtractMethods \/ BuildCallGraph

SpecParse == InitParse /\ [][NextParse]_vars

\* the text of the method whose node is declarations[i], after its declared line
BodyOf(i) ==
    LET first == declarations[i].line - 1
        last == find_method_end(source_lines, first)
    IN  JoinLines(SubSeq(source_lines, first + 2, last + 1))

\* C26: a function's calls_made holds its own declared name only if its body
\* invokes that name, so a function that does not call itself is not linked as
\* its own caller or callee, nor to another function because it shares its name.
C26_OwnNameNotACall ==
    (variant = "basic" /\ declarations # <<>> /\ pc \in {"start", "linked"}) =>
        \A i \in 1..Len(declarations) :
            LET m == MethodInfo(declarations[i].class_name, declarations[i].method_name,
                                {}, FALSE, 0)
                sig == FullSignature(m)
            IN  declarations[i].method_name \notin extract_method_calls(BodyOf(i)) =>
                    /\ declarations[i].method_name \notin all_methods[sig].calls_made
                    /\ pc = "linked" =>
                          /\ sig \notin method_calls_map[sig]
                          /\ sig \notin called_by[sig]

-----------------------------------------------------------------------------
(* Context assembly in optimized_java_extractor.py: organize_results_by_relevance
   followed by trim_code_context *)

\* a retained function with its relevance score
ScoredEntry(cls, name, fp, score) ==
    [class_name |-> cls, method_name |-> name, file_path |-> fp, relevance_score |-> score,
     snippet |-> "void " \o name \o "() {}"]

\* the category of organize_results_by_relevance
RelevanceCategory(relevance_score) ==
    IF relevance_score >= 50 THEN "HIGH"
    ELSE IF relevance_score >= 30 THEN "MEDIUM"
    ELSE IF relevance_score >= 15 THEN "LOW"
    ELSE "RELATED"

\* the annotated snippet of one function
AnnotatedByRelevance(m) ==
    "// [" \o RelevanceCategory(m.relevance_score) \o "] Method: " \o QualifiedName(m)
        \o " [Score: " \o ToString(m.relevance_score) \o "]"
        \o (IF m.relevance_score >= 50 THEN " [PRIMARY_KEYWORD_IN_METHOD_NAME]"
            ELSE IF m.relevance_score >= 30 THEN " [KEYWORD_MATCH]" ELSE "")
        \o "\n// File: " \o m.file_path \o "\n" \o m.snippet

RECURSIVE FilesInOrder(_)
\* the keys of methods_by_file, in the order of their first appearance
FilesInOrder(items) ==
    IF items = <<>> THEN <<>>
    ELSE LET rest == FilesInOrder(SubSeq(items, 1, Len(items) - 1))
             fp == items[Len(items)].file_path
         IN  IF \E i \in 1..Len(rest) : rest[i] = fp THEN rest ELSE Append(rest, fp)

\* organize_results_by_relevance(all_relevant_methods): per file, the annotated
\* snippets sorted by relevance score, highest first (a stable sort)
organize_results_by_relevance(items) ==
    LET files == FilesInOrder(items)
    IN  [k \in 1..Len(files) |->
            LET method_list == SelectSeq(items, LAMBDA m : m.file_path = files[k])
                sorted == SortDesc(method_list,
                              [i \in 1..Len(method_list) |-> <<method_list[i].relevance_score>>])
            IN  [file |-> files[k],
                 snippets |-> [i \in 1..Len(sorted) |-> AnnotatedByRelevance(sorted[i])]]]

MaxEntries == 3         \* retained functions: 1..MaxEntries

\* four functions in three files
EntryNames ==
    {<<"A", "f", "src/A.java">>, <<"A", "g", "src/A.java">>, <<"B", "h", "src/B.java">>,
     <<"C", "k", "src/C.java">>}

\* a score of each category, two of the highest
EntryScores == {5, 20, 35, 55, 95}

\* the retained functions of one retrieval, in the order of the dict, and the budget
InitAssemble ==
    /\ TieIdle /\ GraphIdle /\ ContentIdle /\ RetrieveIdle
    /\ ResolveIdle /\ WalkIdle /\ TextIdle /\ SpanIdle /\ ParseIdle /\ LateIdle
    /\ pc = "retained"
    /\ variant = "optimized"
    /\ \E n \in 1..MaxEntries :
          \E names \in [1..n -> EntryNames] : \E sc \in [1..n -> EntryScores] :
             /\ \A i, j \in 1..n : i # j => names[i] # names[j]
             /\ all_relevant_methods =
                   [i \in 1..n |-> ScoredEntry(names[i][1], names[i][2], names[i][3], sc[i])]
    /\ snippets_by_file = <<>>
    /\ max_chars \in {DefaultMaxChars, 2 * TightBudget}
    /\ context = NoContext

NotAssemble == <<tieVars, indexVars, graphVars, propVars, contentVars, retrieveVars,
                 resolveVars, walkVars, textVars, spanVars, parseVars, lateVars>>

\* results = organize_results_by_relevance(all_relevant_methods)
OrganizeByRelevance ==
    /\ pc = "retained"
    /\ variant = "optimized"
    /\ snippets_by_file' = organize_results_by_relevance(all_relevant_methods)
    /\ pc' = "organized"
    /\ UNCHANGED <<variant, max_chars, context, all_relevant_methods>>
    /\ UNCHANGED NotAssemble

\* context = trim_code_context(results, max_chars)
TrimOrganized ==
    /\ pc = "organized"
    /\ variant = "optimized"
    /\ context' = trim_code_context(variant, snippets_by_file, max_chars)
    /\ pc' = "assembled"
    /\ UNCHANGED <<variant, snippets_by_file, max_chars, all_relevant_methods>>
    /\ UNCHANGED NotAssemble

NextAssemble == OrganizeByRelevance \/ TrimOrganized

SpecAssemble == InitAssemble /\ [][NextAssemble]_vars

\* the relevance score of the function an included entry was made for
ScoreOfChunk(chunk) ==
    LET i == CHOOSE i \in 1..Len(all_relevant_methods) :
                 Chunk("optimized", all_relevant_methods[i].file_path,
                       AnnotatedByRelevance(all_relevant_methods[i])) = chunk
    IN  all_relevant_methods[i].relevance_score

\* C23: the assembled context lists its entries by score descending: no included
\* entry has a strictly higher relevance score than an entry placed before it,
\* also when the entries come from different files.
C23_ScoreDescending ==
    pc = "assembled" =>
        LET chunks == TrimChunks("optimized", snippets_by_file, max_chars)
        IN  /\ context = Join(chunks)
            /\ \A i, j \in 1..Len(chunks) :
                  i < j => ScoreOfChunk(chunks[i]) >= ScoreOfChunk(chunks[j])

\* ---------------------------------------------------------------------------
\* The multi-field test case manager of complete_test_case_manager.py
\* ---------------------------------------------------------------------------

MaxCases == 2
MaxDecisions == 3
MaxRows == 2
MaxIds == 2

\* dict[key] = value
SetItem(dict, key, value) ==
    [k \in DOMAIN dict \cup {key} |-> IF k = key THEN value ELSE dict[k]]

\* f"TC_{n:03d}"
TcId(n) ==
    "TC_" \o (IF n < 10 THEN "00" ELSE IF n < 100 THEN "0" ELSE "") \o ToString(n)

\* FieldSession.__init__; test_cases maps a test case id to the status of the TestCase
FieldSession(field_name) ==
    [field_name |-> field_name, test_cases |-> EmptyDict, status |-> "in_progress",
     approved_count |-> 0, rejected_count |-> 0, total_generated |-> 0]

FieldNames == {"amount", "currency"}

\* the rows of a response after strip(): the number of columns the split gives,
\* and the lengths of the stripped objective and steps columns
RowLines ==
    { [skipped |-> FALSE, columns |-> 9, objective |-> 12, steps |-> 20],
      [skipped |-> FALSE, columns |-> 6, objective |-> 5, steps |-> 5],
      [skipped |-> FALSE, columns |-> 5, objective |-> 12, steps |-> 0],
      [skipped |-> FALSE, columns |-> 9, objective |-> 4, steps |-> 20],
      [skipped |-> FALSE, columns |-> 9, objective |-> 12, steps |-> 0],
      [skipped |-> TRUE, columns |-> 1, objective |-> 0, steps |-> 0] }

\* whether the loop body of parse_and_add_test_cases stores a test case for the line
RowStored(line) ==
    /\ ~line.skipped
    /\ line.columns >= 6
    /\ line.objective >= 5
    /\ line.steps >= 5

\* the loop over the lines: the session and the global counter after it
RECURSIVE AddRows(_, _, _)
AddRows(session, next_number, lines) ==
    IF lines = <<>> THEN [session |-> session, counter |-> next_number]
    ELSE IF RowStored(Head(lines))
         THEN AddRows([session EXCEPT
                          !.test_cases = SetItem(@, TcId(next_number), "pending"),
                          !.total_generated = @ + 1],
                      next_number + 1, Tail(lines))
         ELSE AddRows(session, next_number, Tail(lines))

\* _ensure_field_session
EnsureFieldSession(sessions, field_name) ==
    IF field_name \in DOMAIN sessions THEN sessions
    ELSE SetItem(sessions, field_name, FieldSession(field_name))

\* _find_test_case_by_id: the field whose session holds the id, "" for None; the
\* ids come from one counter, so at most one session holds a given id
FindTestCaseById(sessions, tc_id) ==
    IF \E f \in DOMAIN sessions : tc_id \in DOMAIN sessions[f].test_cases
    THEN CHOOSE f \in DOMAIN sessions : tc_id \in DOMAIN sessions[f].test_cases
    ELSE ""

\* the loop of approve_test_cases
RECURSIVE ApproveLoop(_, _)
ApproveLoop(sessions, tc_ids) ==
    IF tc_ids = <<>> THEN sessions
    ELSE LET f == FindTestCaseById(sessions, Head(tc_ids))
         IN  IF f = "" THEN ApproveLoop(sessions, Tail(tc_ids))
             ELSE ApproveLoop([sessions EXCEPT
                                  ![f].test_cases[Head(tc_ids)] = "approved",
                                  ![f].approved_count = @ + 1],
                              Tail(tc_ids))

\* the loop of reject_test_cases
RECURSIVE RejectLoop(_, _)
RejectLoop(sessions, tc_ids) ==
    IF tc_ids = <<>> THEN sessions
    ELSE LET f == FindTestCaseById(sessions, Head(tc_ids))
         IN  IF f = "" THEN RejectLoop(sessions, Tail(tc_ids))
             ELSE RejectLoop([sessions EXCEPT
                                 ![f].test_cases[Head(tc_ids)] = "rejected",
                                 ![f].rejected_count = @ + 1],
                             Tail(tc_ids))

\* how many test cases of a session have the status
CountStatus(session, status) ==
    Cardinality({id \in DOMAIN session.test_cases : session.test_cases[id] = status})

\* how many of the ids are found in some session
RECURSIVE FoundCount(_, _)
FoundCount(sessions, tc_ids) ==
    IF tc_ids = <<>> THEN 0
    ELSE (IF FindTestCaseById(sessions, Head(tc_ids)) = "" THEN 0 ELSE 1)
         + FoundCount(sessions, Tail(tc_ids))

DecisionsMade ==
    LET RECURSIVE Sum(_)
        Sum(fs) == IF fs = {} THEN 0
                   ELSE LET f == CHOOSE f \in fs : TRUE
                        IN  field_sessions[f].approved_count
                            + field_sessions[f].rejected_count + Sum(fs \ {f})
    IN  Sum(DOMAIN field_sessions)

\* the ids a caller may pass: those handed out so far and one never handed out
KnownIds == {TcId(n) : n \in 1..MaxCases + 1}

IdLists == UNION {[1..n -> KnownIds] : n \in 1..MaxIds}

InitManager ==
    /\ TrimIdle /\ TieIdle /\ GraphIdle /\ ContentIdle /\ RetrieveIdle
    /\ ResolveIdle /\ WalkIdle /\ TextIdle /\ SpanIdle /\ ParseIdle /\ AssembleIdle
    /\ BulkIdle /\ StoreIdle
    /\ SessionIdle
    /\ pc = "managing"
    /\ variant = "multi_field"

NotManager == <<variant, trimVars, tieVars, indexVars, graphVars, propVars, contentVars,
                retrieveVars, resolveVars, walkVars, textVars, spanVars, parseVars,
                assembleVars, bulkVars, storeVars>>

\* parse_and_add_test_cases(raw_text, default_mapping, field_name) with a text that
\* is not blank; without a field name it returns before touching anything
ParseAndAddTestCases ==
    /\ pc \in {"managing", "completed"}
    /\ variant = "multi_field"
    /\ \E field_name \in FieldNames \cup {""} :
          \E n \in 1..MaxRows : \E lines \in [1..n -> RowLines] :
             IF field_name = ""
             THEN UNCHANGED <<field_sessions, global_tc_counter, current_field>>
             ELSE LET sessions == EnsureFieldSession(field_sessions, field_name)
                      after == AddRows(sessions[field_name], global_tc_counter, lines)
                  IN  /\ after.counter <= MaxCases + 1
                      /\ field_sessions' = [sessions EXCEPT ![field_name] = after.session]
                      /\ global_tc_counter' = after.counter
                      /\ current_field' = field_name
    /\ pc' = "managing"
    /\ UNCHANGED summary
    /\ UNCHANGED NotManager

\* approve_test_cases(tc_ids)
ApproveTestCases ==
    /\ pc \in {"managing", "completed"}
    /\ variant = "multi_field"
    /\ \E tc_ids \in IdLists :
          /\ DecisionsMade + FoundCount(field_sessions, tc_ids) <= MaxDecisions
          /\ field_sessions' = ApproveLoop(field_sessions, tc_ids)
    /\ pc' = "managing"
    /\ UNCHANGED <<global_tc_counter, current_field, summary>>
    /\ UNCHANGED NotManager

\* reject_test_cases(tc_ids)
RejectTestCases ==
    /\ pc \in {"managing", "completed"}
    /\ variant = "multi_field"
    /\ \E tc_ids \in IdLists :
          /\ DecisionsMade + FoundCount(field_sessions, tc_ids) <= MaxDecisions
          /\ field_sessions' = RejectLoop(field_sessions, tc_ids)
    /\ pc' = "managing"
    /\ UNCHANGED <<global_tc_counter, current_field, summary>>
    /\ UNCHANGED NotManager

\* complete_field(field_name) for a field that has a session; the completion time
\* it stamps is left out
CompleteField ==
    /\ pc \in {"managing", "completed"}
    /\ variant = "multi_field"
    /\ \E field_name \in DOMAIN field_sessions :
          /\ field_sessions' = [field_sessions EXCEPT ![field_name].status = "completed"]
          /\ summary' = [field_name |-> field_name,
                         approved_count |-> CountStatus(field_sessions[field_name], "approved"),
                         rejected_count |-> field_sessions[field_name].rejected_count,
                         total_generated |-> field_sessions[field_name].total_generated,
                         status |-> "completed"]
    /\ pc' = "completed"
    /\ UNCHANGED <<global_tc_counter, current_field>>
    /\ UNCHANGED NotManager

NextManager == ParseAndAddTestCases \/ ApproveTestCases \/ RejectTestCases \/ CompleteField

SpecManager == InitManager /\ [][NextManager]_vars

\* C28: in every field session approved_count and rejected_count are the numbers
\* of its test cases whose status is approved and rejected, and the rejected_count
\* that complete_field has just reported is the number of rejected test cases of
\* that field.
C28_CountsMatchStatuses ==
    /\ \A f \in DOMAIN field_sessions :
          /\ field_sessions[f].approved_count = CountStatus(field_sessions[f], "approved")
          /\ field_sessions[f].rejected_count = CountStatus(field_sessions[f], "rejected")
    /\ pc = "completed" =>
          summary.rejected_count = CountStatus(field_sessions[summary.field_name], "rejected")

\* ---------------------------------------------------------------------------
\* One batch of bulk_generate in README.py
\* ---------------------------------------------------------------------------

MaxBatch == 2

\* a key the dict does not have
Missing == "<missing>"

\* a field dict that passed _validate_field_data: a name of two characters or more,
\* and a backend_xpath that is absent, None, empty or a path
BulkFields ==
    [field_name : {"amount", "rate"}, backend_xpath : {Missing, None, "", "Acct/amount"}]

\* field.get(key): None when the key is absent
FieldGet(field, key) == IF field[key] = Missing THEN None ELSE field[key]

\* field.get(key, default)
FieldGetOr(field, key, default) == IF field[key] = Missing THEN default ELSE field[key]

\* Python's truth value of a string or None
Truthy(v) == v # None /\ v # ""

\* a or b
OrElse(a, b) == IF Truthy(a) THEN a ELSE b

\* _hash_text: text.encode raises AttributeError on None
HashRaises(text) == text = None
hash_text(text) == "#" \o text

\* what the extraction call of extract_context_safe does for a field: it returns a
\* context (possibly empty) or raises an exception with the given message
ExtractionOutcomes ==
    { [raised |-> FALSE, value |-> "class A { }"], [raised |-> FALSE, value |-> ""],
      [raised |-> TRUE, value |-> "No such directory"], [raised |-> TRUE, value |-> ""] }

\* extract_context_safe(field): the triple (fid_short, ctx, error)
extract_context_safe(field, outcome) ==
    LET backend_xpath == OrElse(FieldGet(field, "backend_xpath"), "")
        field_name == FieldGetOr(field, "field_name", "")
    IN  IF outcome.raised
        THEN [fid_short |-> None, ctx |-> "", error |-> outcome.value]
        ELSE [fid_short |-> field_name \o "_" \o hash_text(OrElse(backend_xpath, field_name)),
              ctx |-> outcome.value, error |-> None]

\* the argument of _hash_text in the two error branches of the result loop
ErrorHashArgument(field) == FieldGetOr(field, "backend_xpath", FieldGetOr(field, "field_name", "unknown"))

ErrorFidShort(field) ==
    FieldGetOr(field, "field_name", "unknown") \o "_" \o hash_text(ErrorHashArgument(field))

InitBulk ==
    /\ TrimIdle /\ TieIdle /\ GraphIdle /\ ContentIdle /\ RetrieveIdle
    /\ ResolveIdle /\ WalkIdle /\ TextIdle /\ SpanIdle /\ ParseIdle /\ AssembleIdle
    /\ SessionIdle /\ StoreIdle
    /\ pc = "batch_start"
    /\ variant = "bulk"
    /\ \E n \in 1..MaxBatch : batch \in [1..n -> BulkFields]
    /\ running = <<>>
    /\ code_contexts = EmptyDict
    /\ extraction_errors = <<>>
    /\ batch_failures = <<>>

NotBulk == <<variant, trimVars, tieVars, indexVars, graphVars, propVars, contentVars,
             retrieveVars, resolveVars, walkVars, textVars, spanVars, parseVars,
             assembleVars, sessionVars, storeVars>>

\* executor.submit(extract_context_safe, field) for every field of the batch; each
\* future holds the result of its task and whether as_completed has yielded it
SubmitExtractions ==
    /\ pc = "batch_start"
    /\ \E outcomes \in [1..Len(batch) -> ExtractionOutcomes] :
          running' = [i \in 1..Len(batch) |->
                         [result |-> extract_context_safe(batch[i], outcomes[i]),
                          yielded |-> FALSE]]
    /\ pc' = "extracting"
    /\ UNCHANGED <<batch, code_contexts, extraction_errors, batch_failures>>
    /\ UNCHANGED NotBulk

\* one round of the loop over as_completed(future_to_field), for whichever future
\* completes next; an exception that leaves the loop is caught by the handler of
\* the batch, which records the batch as failed
HandleCompleted ==
    /\ pc = "extracting"
    /\ \E i \in 1..Len(running) :
          /\ ~running[i].yielded
          /\ LET field == batch[i]
                 field_name == FieldGetOr(field, "field_name", "unknown")
                 result == running[i].result
                 left == {j \in 1..Len(running) : ~running[j].yielded} \ {i}
             IN  /\ running' = [running EXCEPT ![i].yielded = TRUE]
                 /\ IF ~Truthy(result.error)
                    THEN /\ code_contexts' = SetItem(code_contexts, result.fid_short, result.ctx)
                         /\ UNCHANGED <<extraction_errors, batch_failures>>
                         /\ pc' = IF left = {} THEN "extracted" ELSE "extracting"
                    ELSE IF ~HashRaises(ErrorHashArgument(field))
                    THEN /\ code_contexts' = SetItem(code_contexts, ErrorFidShort(field), "")
                         /\ extraction_errors' =
                               Append(extraction_errors, field_name \o ": " \o result.error)
                         /\ UNCHANGED batch_failures
                         /\ pc' = IF left = {} THEN "extracted" ELSE "extracting"
                    ELSE /\ extraction_errors' =
                               extraction_errors \o
                                  <<field_name \o ": " \o result.error,
                                    field_name \o ": AttributeError">>
                         /\ batch_failures' =
                               Append(batch_failures, [error |-> "AttributeError"])
                         /\ UNCHANGED code_contexts
                         /\ pc' = "batch_failed"
    /\ UNCHANGED batch
    /\ UNCHANGED NotBulk

\* the generation call for the batch and the parsing of its output; the answer of
\* the API and the success of the parsing are the environment's
GenerateForBatch ==
    /\ pc = "extracted"
    /\ \E error \in {"", "API call failed", "Parsing failed"} :
          IF error = ""
          THEN /\ pc' = "processed"
               /\ UNCHANGED batch_failures
          ELSE /\ pc' = "generation_failed"
               /\ batch_failures' = Append(batch_failures, [error |-> error])
    /\ UNCHANGED <<batch, running, code_contexts, extraction_errors>>
    /\ UNCHANGED NotBulk

NextBulk == SubmitExtractions \/ HandleCompleted \/ GenerateForBatch

SpecBulk == InitBulk /\ [][NextBulk]_vars

\* the key under which the result loop stores the context of the i-th field
StoredKey(i) ==
    IF Truthy(running[i].result.error) THEN ErrorFidShort(batch[i])
    ELSE running[i].result.fid_short

\* C29: whatever the completion order and whichever extractions raise, the batch is
\* never recorded as failed by the extraction loop, and when the loop is over every
\* field of the batch has an entry in code_contexts, an empty one if its extraction
\* raised.
C29_ExtractionFailuresIsolated ==
    /\ pc # "batch_failed"
    /\ pc = "extracted" =>
          \A i \in 1..Len(batch) :
             /\ StoredKey(i) \in DOMAIN code_contexts
             /\ StoredKey(i) # None
             /\ running[i].result.error # None => code_contexts[StoredKey(i)] = ""

\* ---------------------------------------------------------------------------
\* The single-list test case manager of README.py
\* ---------------------------------------------------------------------------

MaxStored == 4

DigitValue(c) ==
    CASE c = "0" -> 0 [] c = "1" -> 1 [] c = "2" -> 2 [] c = "3" -> 3 [] c = "4" -> 4
      [] c = "5" -> 5 [] c = "6" -> 6 [] c = "7" -> 7 [] c = "8" -> 8 [] c = "9" -> 9

RECURSIVE DecimalValue(_)
DecimalValue(s) ==
    IF s = "" THEN 0 ELSE 10 * DecimalValue(SubSeq(s, 1, Len(s) - 1)) + DigitValue(Ch(s, Len(s)))

\* int(s) raises ValueError for the empty string and for a string with a character
\* that is not a decimal digit
IntRaises(s) == s = "" \/ \E i \in 1..Len(s) : Ch(s, i) \notin Digits

\* tc_id.split('_')[1] for an id that starts with TC_
IdNumberPart(tc_id) == Split(tc_id, "_")[2]

\* the Test Case ID column of a row, stripped
SuppliedIds == {"", "TC_001", "TC_002", "TC_2", "TC_x", "7"}

\* the loop body of parse_and_add_test_cases from the id on, for a row that passed
\* the checks: the id of the stored case and the counter after it
StoreCase(next_number, supplied) ==
    LET generated == supplied = "" \/ ~StartsAt(supplied, 1, "TC_")
        tc_id == IF generated THEN TcId(next_number) ELSE supplied
        after_id == IF generated THEN next_number + 1 ELSE next_number
        part == IdNumberPart(tc_id)
    IN  [tc_id |-> tc_id,
         counter |-> IF IntRaises(part) THEN after_id
                     ELSE Max2(after_id, DecimalValue(part) + 1)]

\* the loop over the lines: the list and the counter after it
RECURSIVE StoreRows(_, _, _, _)
StoreRows(cases, next_number, lines, ids) ==
    IF lines = <<>> THEN [test_cases |-> cases, counter |-> next_number]
    ELSE IF RowStored(Head(lines))
         THEN LET stored == StoreCase(next_number, Head(ids))
              IN  StoreRows(Append(cases, [tc_id |-> stored.tc_id]), stored.counter,
                            Tail(lines), Tail(ids))
         ELSE StoreRows(cases, next_number, Tail(lines), Tail(ids))

InitStore ==
    /\ TrimIdle /\ TieIdle /\ GraphIdle /\ ContentIdle /\ RetrieveIdle
    /\ ResolveIdle /\ WalkIdle /\ TextIdle /\ SpanIdle /\ ParseIdle /\ AssembleIdle
    /\ SessionIdle /\ BulkIdle
    /\ StoreIdle
    /\ pc = "storing"
    /\ variant = "single_list"

NotStore == <<pc, variant, trimVars, tieVars, indexVars, graphVars, propVars, contentVars,
              retrieveVars, resolveVars, walkVars, textVars, spanVars, parseVars,
              assembleVars, sessionVars, bulkVars>>

\* parse_and_add_test_cases(raw_text, default_mapping) with a text that is not blank
ParseAndAdd ==
    /\ pc = "storing"
    /\ variant = "single_list"
    /\ \E n \in 1..MaxRows : \E lines \in [1..n -> RowLines] : \E ids \in [1..n -> SuppliedIds] :
          LET after == StoreRows(test_cases, counter, lines, ids)
          IN  /\ Len(after.test_cases) <= MaxStored
              /\ test_cases' = after.test_cases
              /\ counter' = after.counter
    /\ UNCHANGED NotStore

\* clear_cases()
ClearCases ==
    /\ pc = "storing"
    /\ variant = "single_list"
    /\ test_cases' = <<>>
    /\ counter' = 1
    /\ UNCHANGED NotStore

NextStore == ParseAndAdd \/ ClearCases

SpecStore == InitStore /\ [][NextStore]_vars

\* C30: no two stored test cases have the same Test Case ID, whether the id was
\* made from the counter or supplied in the row.
C30_IdsUnique ==
    \A i, j \in 1..Len(test_cases) : i # j => test_cases[i].tc_id # test_cases[j].tc_id

====
